---- MODULE Spec2Model ----
(***************************************************************************)
(* Model of edge/main.py of the recycle sorter: the dual-classifier        *)
(* validator (recognizeAndValidate), the serial reader's state-line parser *)
(* (SerialESP32Client._reader_loop, _STATE_RE) and the controller loop     *)
(* (webcamFeed) with the serial client and the frame grabber it polls.     *)
(*                                                                         *)
(* Python's None is modelled per type: an optional category id is a record *)
(* [ok, v] (None == [ok |-> FALSE, v |-> 0]); an absent frame is frame id  *)
(* NoFrame; an absent regex match is the empty sequence.                   *)
(***************************************************************************)
EXTENDS Integers, Sequences, FiniteSets, TLC

VARIABLES
    \* ---- recognizeAndValidate (locals of one call) ----
    v_pc,            \* position inside recognizeAndValidate
    image,           \* parameter image (a frame id)
    retry_count,     \* parameter retry_count
    rf1, gm1,        \* first-attempt results (None when the call raised)
    frame2,          \* frame used for the retry
    rf2, gm2,        \* retry results
    v_result,        \* the returned category id
    v_ret,           \* which return statement was taken (source line of the return)
    callsA, callsB,  \* number of calls of recognizeImage / recognizeImage_gemini
    supplierCalls,   \* number of calls of get_frame
    callLog,         \* the classifier calls made, in order: [fn, frame, failed]
    \* ---- FrameGrabber ----
    latest,          \* FrameGrabber._latest (NoFrame is None)
    \* ---- SerialESP32Client ----
    last_state_tuple,  \* _last_state_tuple: <<isMoving, isTriggered>>
    last_state_line,   \* _last_state_line: text of the last parsed line (<<>> is None)
    \* ---- record of the reader's last iteration ----
    rxRaw,           \* what readline returned in that iteration
    prevTuple,       \* _last_state_tuple before that iteration
    rxDone,          \* TRUE once the iteration has run
    reader_text,     \* the reader's local text between readline and the cache update (<<>>: none)
    serialOpen,      \* _serial is an open connection
    readerAlive,     \* the SerialReader thread is running
    lastWritten,     \* the command value written to the device in this cycle (NoCommand: none)
    serialAccessed,  \* the controller has called currentState() or esp32Command()
    grabberAlive,    \* the FrameGrabber thread is running
    \* ---- webcamFeed ----
    pc,              \* position of the controller loop
    show_window,     \* parameter show_window
    max_frames,      \* parameter max_frames (NoLimit is None)
    processed,       \* local processed
    frame,           \* local frame (line 639)
    frame_to_use,    \* local frame_to_use
    category_id,     \* local category_id
    category_slug,   \* local category_slug
    isMoving,        \* local isMoving
    isTriggered,     \* local isTriggered
    \* ---- record of the current cycle ----
    cycleLog,        \* the steps taken since the trigger was observed
    sendAttempts,    \* calls of send_command since the trigger was observed
    commanded,       \* the value passed to esp32Command in this cycle (NoCommand: none)
    v_returned,      \* what recognizeAndValidate returned in this cycle
    published,       \* the slug handed to the backend in this cycle ("" when none)
    settlePolled,    \* a WaitSettle poll of this cycle has read isMoving = true
    faults,          \* the steps of this cycle that failed: "classifier", "publish", "command"
    releaseSeen,     \* a poll since the last command (or the start) has read isTriggered = false
    \* ---- SerialESP32Client alone: the identity of its connections ----
    conn,            \* the object held in _serial: 0 is None, k the k-th connection opened
    opened,          \* number of connections opened so far
    writeFailed,     \* the connections on which a write has failed
    readFailed,      \* the connections on which a read of the reader loop has failed
    ser_last,        \* the last operation of the client: [op, conn, ok, raised]
    ser_main,        \* the calling thread inside the client: [pc, op, value, connection]
    ser_reader,      \* the SerialReader thread: [pc, connection, text]
    \* ---- SerialESP32Client._resolve_port alone ----
    com_override,    \* the com_override argument of __init__ (<<>> is None)
    ports,           \* what list_ports.comports() returns
    resolved,        \* the outcome of _resolve_port ([done |-> FALSE] before the call)
    \* ---- FrameGrabber alone: start, stop and the capture threads ----
    _cap,            \* FrameGrabber._cap: 0 is None, NotOpened, or the id of a camera handle
    _stop,           \* FrameGrabber._stop is set
    _thread,         \* FrameGrabber._thread: 0 is None, else the id of a thread
    _fail_count,     \* FrameGrabber._fail_count
    _last_reopen,    \* FrameGrabber._last_reopen: 0 is 0.0, else the time of the last reopen
    clock,           \* the value time.time() last returned, in seconds
    loops,           \* per thread id: [pc, cap], the position in _loop and its local cap
    cams,            \* per camera handle id: "none" (not yet opened), "open", "released"
    caller,          \* the thread calling start() and stop(): [pc, last]
    \* ---- FrameGrabber alone: the frame buffers ----
    heap,            \* the content of each frame buffer, cell by cell
    _lock,           \* FrameGrabber._lock: "free" or its holder
    capture,         \* the capture loop inside one cap.read(): [pc, ref, frame, cell]
    snapshot,        \* one get_latest_frame(copy=True): [pc, ref, cell, snap, returned]
    writtenWhole,    \* the frames the capture loop has stored in _latest
    \* ---- SerialESP32Client alone: its two threads, statement by statement ----
    _serial,         \* SerialESP32Client._serial: 0 is None, else the id of a handle
    handles,         \* per handle id: "none" (not yet opened), "open", "closed"
    _reader_thread,  \* SerialESP32Client._reader_thread: 0 is None, else a thread id
    main,            \* the controller's thread inside the client: [pc, op, value, connection]
    readers,         \* per thread id: [pc, conn, text], the position in _reader_loop
    \* ---- the locks of the serial client, for the controller with its tasks ----
    _state_lock,     \* SerialESP32Client._state_lock: "free" or its holder
    _io_lock,        \* SerialESP32Client._io_lock: "free" or its holder
    ctl_call         \* the call the controller's thread is inside: "none", "connect"
                     \* (_ensure_connection, asleep at line 147), or about to take its
                     \* lock: "state" (get_latest_state), "frame" (get_latest_frame)

vars == <<v_pc, image, retry_count, rf1, gm1, frame2, rf2, gm2, v_result, v_ret,
          callsA, callsB, supplierCalls, callLog, latest,
          last_state_tuple, last_state_line, rxRaw, prevTuple, rxDone, reader_text,
          serialOpen, readerAlive, lastWritten, serialAccessed, grabberAlive,
          pc, show_window, max_frames, processed, frame, frame_to_use,
          category_id, category_slug, isMoving, isTriggered,
          cycleLog, sendAttempts, commanded, v_returned, published, settlePolled, faults,
          releaseSeen,
          conn, opened, writeFailed, readFailed, ser_last, ser_main, ser_reader,
          com_override, ports, resolved,
          _cap, _stop, _thread, _fail_count, _last_reopen, clock, loops, cams, caller,
          heap, _lock, capture, snapshot, writtenWhole,
          _serial, handles, _reader_thread, main, readers,
          _state_lock, _io_lock, ctl_call>>

serVars == <<serialOpen, readerAlive, lastWritten, serialAccessed>>
ctlVars == <<pc, show_window, max_frames, processed, frame, frame_to_use,
             category_id, category_slug, isMoving, isTriggered>>
logVars == <<cycleLog, sendAttempts, commanded, v_returned, published, settlePolled, faults,
             releaseSeen>>

\* the serial client's caches and the record of the reader's last iteration
cacheVars == <<last_state_tuple, last_state_line>>
rxVars == <<rxRaw, prevTuple, rxDone, reader_text>>

connVars == <<conn, opened, writeFailed, readFailed, ser_last, ser_main, ser_reader>>
resVars == <<com_override, ports, resolved>>

\* the state of the components when they are exercised alone
fgVars == <<_cap, _stop, _thread, _fail_count, _last_reopen, clock, loops, cams, caller>>
frVars == <<heap, _lock, capture, snapshot, writtenWhole>>
chVars == <<_serial, handles, _reader_thread, main, readers>>
lockVars == <<_state_lock, _io_lock, ctl_call>>
unitVars == <<connVars, resVars, fgVars, frVars, chVars, lockVars>>

valVars == <<v_pc, image, retry_count, rf1, gm1, frame2, rf2, gm2, v_result, v_ret,
             callsA, callsB, supplierCalls, callLog>>

----------------------------------------------------------------------------
(* Bounds of the model *)

\* frames are identified by 1..MaxFrameId
MaxFrameId == 2
\* recognized_category_id values Gemini's response may carry: 0..MaxGeminiId
MaxGeminiId == 4
\* retry_count settings explored: 0..MaxRetryCount
MaxRetryCount == 2
\* cycles the controller model runs: processed stays within 0..MaxCycles
MaxCycles == 2

----------------------------------------------------------------------------
(* Values *)

NoFrame == 0
Frames == 1..MaxFrameId

None == [ok |-> FALSE, v |-> 0]
Some(x) == [ok |-> TRUE, v |-> x]

\* Outcome of a call that may raise: a returned value or an exception class.
Return(x) == [raised |-> FALSE, v |-> x, exc |-> "none"]
Raise(e) == [raised |-> TRUE, v |-> 0, exc |-> e]

\* The classes the classifiers raise; all derive from Exception.
ExceptionClasses == {"EnvironmentError", "ValueError", "KeyError", "APIError"}

\* try: x = call() / except Exception: x = None   (lines 567-576, 594-603)
ExceptCatches(out) == out.raised /\ out.exc \in ExceptionClasses
TryResult(out) == IF out.raised THEN None ELSE Some(out.v)

GARBAGE == 3

\* CATEGORY_ID_TO_SLUG
CATEGORY_ID_TO_SLUG == [i \in {1, 2, 3} |-> CASE i = 1 -> "can" [] i = 2 -> "bottle" [] i = 3 -> "garbage"]

----------------------------------------------------------------------------
(* Classifier A: recognizeImage.  An environment of one call says whether  *)
(* ROBOFLOW_API_KEY is set, whether the frame encodes to JPEG, and what    *)
(* the SDK request and the HTTP fallback request produce: "error" (the     *)
(* request raised: network failure, timeout, bad status) or the best label *)
(* found in the response ("" when the response holds no prediction).       *)

Labels == {"", "Can", "water bottle", "bottle cap can", "paper"}

\* "can" in norm  (norm = label.strip().lower())
HasCan(label) == label \in {"Can", "bottle cap can"}
\* "bottle" in norm
HasBottle(label) == label \in {"water bottle", "bottle cap can"}

_label_to_category_id(label) ==
    IF label = "" THEN 3
    ELSE IF HasCan(label) THEN 1
    ELSE IF HasBottle(label) THEN 2
    ELSE 3

RoboflowEnvs ==
    { [key |-> FALSE, encodes |-> TRUE, sdk |-> "error", http |-> "error"],
      [key |-> TRUE, encodes |-> FALSE, sdk |-> "error", http |-> "error"] }
    \cup [key : {TRUE}, encodes : {TRUE}, sdk : Labels \cup {"error"}, http : Labels \cup {"error"}]

\* category of a response whose best label is `label` (lines 902-910, 924-930, 953-959)
CategoryOfResponse(label) == IF label = "" THEN 3 ELSE _label_to_category_id(label)

recognizeImage(env) ==
    IF ~env.key THEN Raise("EnvironmentError")  \* line 873
    ELSE IF ~env.encodes THEN Raise("ValueError")   \* _encode_jpeg, line 727
    ELSE IF env.sdk # "error" THEN Return(CategoryOfResponse(env.sdk))
    ELSE IF env.http # "error" THEN Return(CategoryOfResponse(env.http))
    ELSE Return(3)                              \* request failed: "defaulting to garbage"

\* the inference request of this call failed or timed out: the except blocks
\* of lines 931-933 and 949-951, reached after the SDK path has failed too
RoboflowRequestFailed(env) ==
    env.key /\ env.encodes /\ env.sdk = "error" /\ env.http = "error"

----------------------------------------------------------------------------
(* Classifier B: recognizeImage_gemini.  The environment says whether      *)
(* GEMINI_API_KEY is set, whether the request raised, and the response:    *)
(* "empty", "badjson" (not JSON), "noid" (no recognized_category_id) or    *)
(* "id" with the integer carried as recognized_category_id.                *)

GeminiIds == 0..MaxGeminiId

GeminiEnvs ==
    { [key |-> FALSE, request |-> "ok", resp |-> "empty", id |-> 0],
      [key |-> TRUE, request |-> "error", resp |-> "empty", id |-> 0] }
    \cup [key : {TRUE}, request : {"ok"}, resp : {"empty", "badjson", "noid"}, id : {0}]
    \cup [key : {TRUE}, request : {"ok"}, resp : {"id"}, id : GeminiIds]

recognizeImage_gemini(env) ==
    IF ~env.key THEN Raise("EnvironmentError")          \* line 966
    ELSE IF env.request = "error" THEN Raise("APIError")    \* generate_content_stream raises
    ELSE IF env.resp = "empty" THEN Raise("ValueError")     \* line 1018
    ELSE IF env.resp = "badjson" THEN Raise("ValueError")   \* line 1023
    ELSE IF env.resp = "noid" THEN Raise("KeyError")        \* parsed["recognized_category_id"]
    ELSE Return(env.id)                         \* int(parsed["recognized_category_id"])

\* the request of this call failed: generate_content_stream raised (lines 1007-1011)
GeminiRequestFailed(env) == env.key /\ env.request = "error"

----------------------------------------------------------------------------
(* The serial reader's parser.  A line is a sequence of one-character      *)
(* strings, as decoded from the bytes readline returned.                   *)

\* longest line of the exhaustive line set
MaxLineLen == 4

Alphabet == {"0", "1", ",", " ", "(", ")", "x"}

\* lines longer than MaxLineLen, as a device sends them
ExtraLines ==
    { <<"(", "0", ",", "1", ")">>,
      <<"(", "1", ",", "0", ")", "\r", "\n">>,
      <<"1", ",", "1", "\r", "\n">>,
      <<"0", "\t", "1", "\n">>,
      <<"(", " ", "1", " ", ",", " ", "0", " ", ")", "\n">>,
      <<"1", " ", " ", "0", "\n">>,
      <<"g", "a", "r", "b", "a", "g", "e">>,
      <<"t", "=", "2", "1", ",", "0", "C", "\n">>,
      <<"\r", "\n">> }

AllLines == UNION { [1..n -> Alphabet] : n \in 0..MaxLineLen } \cup ExtraLines

\* the lines the device of the controller model sends
DeviceLines ==
    { <<"0", ",", "0", "\n">>, <<"0", ",", "1", "\n">>,
      <<"1", ",", "0", "\n">>, <<"1", ",", "1", "\n">>,
      <<"b", "o", "o", "t", "\n">>, <<>> }

\* \s of the regular expression, and the characters str.strip() removes
IsSpace(c) == c \in {" ", "\t", "\r", "\n"}
\* [01]
IsBit(c) == c \in {"0", "1"}

\* the character at position i, "" past the end
At(t, i) == IF i \in 1..Len(t) THEN t[i] ELSE ""

RECURSIVE SkipSpaces(_, _)
\* \s* from position i: the position after the longest run of spaces
SkipSpaces(t, i) == IF IsSpace(At(t, i)) THEN SkipSpaces(t, i + 1) ELSE i

RECURSIVE LastNonSpace(_, _)
LastNonSpace(t, i) == IF i >= 1 /\ IsSpace(t[i]) THEN LastNonSpace(t, i - 1) ELSE i

\* str.strip()
Strip(t) ==
    LET a == SkipSpaces(t, 1)
        b == LastNonSpace(t, Len(t))
    IN IF a > b THEN <<>> ELSE SubSeq(t, a, b)

\* \s*([01])\s*[,\s]\s*([01]) from position i: <<group 1, group 2, end>> or <<>>.
\* The greedy \s* runs give way to [,\s] only when no comma follows the run.
MatchBody(t, i) ==
    LET j == SkipSpaces(t, i)
        k == SkipSpaces(t, j + 1)
        m == SkipSpaces(t, k + 1)
    IN IF ~IsBit(At(t, j)) THEN <<>>
       ELSE IF At(t, k) = ","
            THEN IF IsBit(At(t, m)) THEN <<t[j], t[m], m + 1>> ELSE <<>>
            ELSE IF k > j + 1 /\ IsBit(At(t, k)) THEN <<t[j], t[k], k + 1>> ELSE <<>>

\* the whole expression from position p: \(? is tried first, then skipped
MatchAt(t, p) ==
    IF At(t, p) = "(" /\ MatchBody(t, p + 1) # <<>>
    THEN MatchBody(t, p + 1)
    ELSE MatchBody(t, p)

\* end of the match after the trailing \s*\)?
MatchEnd(t, e) ==
    LET f == SkipSpaces(t, e)
    IN IF At(t, f) = ")" THEN f + 1 ELSE f

\* _STATE_RE.search(text): the groups of the leftmost match, <<>> when none
STATE_RE_search(t) ==
    LET starts == { p \in 1..Len(t) : MatchAt(t, p) # <<>> }
    IN IF starts = {} THEN <<>>
       ELSE LET p == CHOOSE q \in starts : \A r \in starts : q <= r
                g == MatchAt(t, p)
            IN <<g[1], g[2]>>

\* lines 212-218 with the groups swapped
ParsedTuple_Swapped(m) == <<m[2] = "1", m[1] = "1">>

\* lines 216-218: (a == "1", b == "1")
ParsedTuple(m) == <<m[1] = "1", m[2] = "1">>

\* One iteration of _reader_loop on what readline returned (lines 205-218):
\* the cache [tuple, line] after it.
ParseStateLine(cache, raw) ==
    LET text == Strip(raw)
        m == STATE_RE_search(text)
    IN IF raw = <<>> THEN cache                 \* timeout: if not raw: continue
       ELSE IF text = <<>> THEN cache           \* if not text: continue
       ELSE IF m # <<>> THEN [tuple |-> ParsedTuple(m), line |-> text]
       ELSE cache

\* __init__, lines 99-100
InitCache ==
    /\ last_state_tuple = <<FALSE, FALSE>>
    /\ last_state_line = <<>>

InitRx ==
    /\ rxRaw = <<>>
    /\ prevTuple = <<FALSE, FALSE>>
    /\ rxDone = FALSE
    /\ reader_text = <<>>

NoCommand == -1

\* __init__, lines 92-96: no connection, no reader thread
InitSerial ==
    /\ serialOpen = FALSE
    /\ readerAlive = FALSE
    /\ lastWritten = NoCommand
    /\ serialAccessed = FALSE

NoLimit == -1

InitLocals ==
    /\ processed = 0
    /\ frame = NoFrame /\ frame_to_use = NoFrame
    /\ category_id = 0 /\ category_slug = ""
    /\ isMoving = FALSE /\ isTriggered = FALSE
    /\ cycleLog = <<>> /\ sendAttempts = 0 /\ commanded = NoCommand /\ v_returned = 0
    /\ published = "" /\ settlePolled = FALSE /\ faults = {}
    /\ releaseSeen = TRUE

\* webcamFeed is not running
InitOff ==
    /\ pc = "off"
    /\ show_window = FALSE /\ max_frames = NoLimit
    /\ grabberAlive = FALSE
    /\ InitLocals

\* the record of a client on which no operation has run
NoOperation == [op |-> "none", conn |-> 0, ok |-> TRUE, raised |-> FALSE]

\* no call of the client is under way
SerMainIdle == [pc |-> "idle", op |-> "none", value |-> 0, connection |-> 0]
\* __init__, line 95: _reader_thread is None
SerReaderUnborn == [pc |-> "unborn", connection |-> 0, text |-> <<>>]
\* the SerialReader thread at line 196
SerReaderTop == [pc |-> "check", connection |-> 0, text |-> <<>>]

\* __init__, line 92: _serial is None; no connection was ever opened
InitConn ==
    /\ conn = 0 /\ opened = 0
    /\ writeFailed = {} /\ readFailed = {}
    /\ ser_last = NoOperation
    /\ ser_main = SerMainIdle
    /\ ser_reader = SerReaderUnborn

\* _resolve_port has not been called
Unresolved == [done |-> FALSE, raised |-> FALSE, device |-> <<>>]

\* no override, no port enumerated, no resolution
InitResolveIdle ==
    /\ com_override = <<>>
    /\ ports = <<>>
    /\ resolved = Unresolved

\* thread ids and camera handle ids of the frame grabber exercised alone
MaxThreads == 2
MaxCameras == 2
ThreadIds == 1..MaxThreads
CameraIds == 1..MaxCameras

\* a VideoCapture object that is not opened
NotOpened == -1

\* line 494: self._reopen_cooldown_sec = 3.0
_reopen_cooldown_sec == 3
\* time.time() counts the seconds since 1970: the first value read is beyond
\* the cooldown; the values read are StartClock..MaxClock
StartClock == _reopen_cooldown_sec
MaxClock == 7

\* FrameGrabber.__init__, lines 481-494
InitGrabber ==
    /\ _cap = 0 /\ _stop = FALSE /\ _thread = 0
    /\ _fail_count = 0 /\ _last_reopen = 0
    /\ clock = StartClock
    /\ loops = [t \in ThreadIds |-> [pc |-> "unborn", cap |-> 0, ok |-> FALSE]]
    /\ cams = [c \in CameraIds |-> "none"]
    /\ caller = [pc |-> "idle", last |-> "none"]

\* cells of a frame buffer, and buffers that can be live at once
MaxCell == 2
MaxBuffers == 3
Cells == 1..MaxCell
Buffers == 1..MaxBuffers

\* a buffer nothing was written to
EmptyBuffer == [c \in Cells |-> NoFrame]

\* the capture loop between two reads; no get_latest_frame in progress
CaptureIdle == [pc |-> "top", ref |-> 0, frame |-> NoFrame, cell |-> 0]
SnapshotIdle == [pc |-> "idle", ref |-> 0, cell |-> 0, snap |-> EmptyBuffer, returned |-> "nothing"]

InitFrames ==
    /\ heap = [b \in Buffers |-> EmptyBuffer]
    /\ _lock = "free"
    /\ capture = CaptureIdle
    /\ snapshot = SnapshotIdle
    /\ writtenWhole = {}

\* serial handles that can be opened, and reader threads that can be created
MaxHandles == 3
MaxReaders == 2
HandleIds == 1..MaxHandles
ReaderIds == 1..MaxReaders
MainIdle == [pc |-> "idle", op |-> "none", value |-> 0, connection |-> 0]

\* __init__, lines 92 and 95: no connection, no reader thread
InitChannel ==
    /\ _serial = 0
    /\ handles = [h \in HandleIds |-> "none"]
    /\ _reader_thread = 0
    /\ main = MainIdle
    /\ readers = [r \in ReaderIds |-> [pc |-> "unborn", conn |-> 0, text |-> <<>>]]

\* __init__, lines 97-98: both locks are free; the controller is in no call
InitLocks == _state_lock = "free" /\ _io_lock = "free" /\ ctl_call = "none"

InitUnits ==
    /\ InitConn
    /\ InitResolveIdle
    /\ InitGrabber
    /\ InitFrames
    /\ InitChannel
    /\ InitLocks

----------------------------------------------------------------------------
(* recognizeAndValidate *)

\* DecideFirst with the agreement test lost: equal first results are retried.
DecideFirst_RetryOnAgreement(r, g, retries) ==
    IF r.ok /\ ~g.ok THEN [ret |-> "L584", val |-> r.v]
    ELSE IF g.ok /\ ~r.ok THEN [ret |-> "L586", val |-> g.v]
    ELSE IF retries > 0 THEN [ret |-> "retry", val |-> 0]
    ELSE [ret |-> "L616", val |-> IF g.ok THEN g.v ELSE IF r.ok THEN r.v ELSE 3]

\* Outcome of the branch after the first attempt (lines 578-589, 615-616):
\* [ret |-> the return statement taken or "retry", val |-> the returned id].
DecideFirst(r, g, retries) ==
    IF r.ok /\ g.ok /\ r.v = g.v THEN [ret |-> "L581", val |-> r.v]
    ELSE IF r.ok /\ ~g.ok THEN [ret |-> "L584", val |-> r.v]
    ELSE IF g.ok /\ ~r.ok THEN [ret |-> "L586", val |-> g.v]
    ELSE IF retries > 0 THEN [ret |-> "retry", val |-> 0]
    ELSE [ret |-> "L616", val |-> IF g.ok THEN g.v ELSE IF r.ok THEN r.v ELSE 3]

\* DecideRetry whose tie-break prefers Roboflow.
DecideRetry_PreferRoboflow(r, g) ==
    IF r.ok /\ g.ok
    THEN IF r.v = g.v THEN [ret |-> "L608", val |-> r.v]
         ELSE [ret |-> "L611", val |-> r.v]
    ELSE [ret |-> "L613", val |-> IF r.ok THEN r.v ELSE IF g.ok THEN g.v ELSE 3]

\* DecideRetry without the final default: returns the (absent) Gemini value.
DecideRetry_NoDefault(r, g) ==
    IF r.ok /\ g.ok
    THEN IF r.v = g.v THEN [ret |-> "L608", val |-> r.v]
         ELSE [ret |-> "L611", val |-> g.v]
    ELSE [ret |-> "L613", val |-> IF r.ok THEN r.v ELSE g.v]

\* Outcome of the branch after the retry (lines 605-613).
DecideRetry(r, g) ==
    IF r.ok /\ g.ok
    THEN IF r.v = g.v THEN [ret |-> "L608", val |-> r.v]
         ELSE [ret |-> "L611", val |-> g.v]
    ELSE [ret |-> "L613", val |-> IF r.ok THEN r.v ELSE IF g.ok THEN g.v ELSE 3]

\* get_frame(copy=True), then the fallback to the original image (lines 591-593)
\* RetryFrame without the supplier: the retry classifies the original image.
RetryFrame_Original(cached, img) == img

RetryFrame(cached, img) == IF cached = NoFrame THEN img ELSE cached

\* The first attempt with one try block around both calls: when Roboflow raises,
\* Gemini is not called and both results are None.
recognizeAndValidate_rf1_OneTryBlock ==
    /\ v_pc = "rf1"
    /\ \E env \in RoboflowEnvs :
          /\ callLog' = Append(callLog, [fn |-> "A", frame |-> image, failed |-> RoboflowRequestFailed(env)])
          /\ LET out == recognizeImage(env)
                 d == DecideFirst(None, None, retry_count)
             IN IF out.raised
                THEN /\ rf1' = None
                     /\ IF d.ret = "retry"
                        THEN v_pc' = "get_frame" /\ UNCHANGED <<v_result, v_ret>>
                        ELSE v_pc' = "done" /\ v_result' = d.val /\ v_ret' = d.ret
                ELSE v_pc' = "gm1" /\ rf1' = TryResult(out) /\ UNCHANGED <<v_result, v_ret>>
    /\ callsA' = callsA + 1
    /\ UNCHANGED <<image, retry_count, gm1, frame2, rf2, gm2, callsB, supplierCalls, latest>>
    /\ UNCHANGED <<cacheVars, rxVars, unitVars, serVars, grabberAlive, ctlVars, logVars>>

\* line 568-571: rf1 = recognizeImage(image), None when it raises
recognizeAndValidate_rf1 ==
    /\ v_pc = "rf1"
    /\ \E env \in RoboflowEnvs :
          /\ callLog' = Append(callLog, [fn |-> "A", frame |-> image, failed |-> RoboflowRequestFailed(env)])
          /\ LET out == recognizeImage(env)
             IN IF out.raised /\ ~ExceptCatches(out)
                THEN v_pc' = "raised" /\ rf1' = rf1
                ELSE v_pc' = "gm1" /\ rf1' = TryResult(out)
    /\ callsA' = callsA + 1
    /\ UNCHANGED <<image, retry_count, gm1, frame2, rf2, gm2, v_result, v_ret,
                   callsB, supplierCalls, latest>>
    /\ UNCHANGED <<cacheVars, rxVars, unitVars, serVars, grabberAlive, ctlVars, logVars>>

\* lines 572-589 and 615-616: gm1 = recognizeImage_gemini(image), then the branch
recognizeAndValidate_gm1 ==
    /\ v_pc = "gm1"
    /\ \E env \in GeminiEnvs :
          /\ callLog' = Append(callLog, [fn |-> "B", frame |-> image, failed |-> GeminiRequestFailed(env)])
          /\ LET out == recognizeImage_gemini(env)
                 g == TryResult(out)
                 d == DecideFirst(rf1, g, retry_count)
             IN IF out.raised /\ ~ExceptCatches(out)
                THEN v_pc' = "raised" /\ UNCHANGED <<gm1, v_result, v_ret>>
                ELSE /\ gm1' = g
                     /\ IF d.ret = "retry"
                        THEN /\ v_pc' = "get_frame"
                             /\ UNCHANGED <<v_result, v_ret>>
                        ELSE /\ v_pc' = "done"
                             /\ v_result' = d.val
                             /\ v_ret' = d.ret
    /\ callsB' = callsB + 1
    /\ UNCHANGED <<image, retry_count, rf1, frame2, rf2, gm2, callsA, supplierCalls, latest>>
    /\ UNCHANGED <<cacheVars, rxVars, unitVars, serVars, grabberAlive, ctlVars, logVars>>

\* lines 590-593: sleep, frame2 = get_frame(copy=True), fall back to image
recognizeAndValidate_get_frame ==
    /\ v_pc = "get_frame"
    /\ frame2' = RetryFrame(latest, image)
    /\ supplierCalls' = supplierCalls + 1
    /\ v_pc' = "rf2"
    /\ UNCHANGED <<image, retry_count, rf1, gm1, rf2, gm2, v_result, v_ret,
                   callsA, callsB, callLog, latest>>
    /\ UNCHANGED <<cacheVars, rxVars, unitVars, serVars, grabberAlive, ctlVars, logVars>>

\* lines 594-598
recognizeAndValidate_rf2 ==
    /\ v_pc = "rf2"
    /\ \E env \in RoboflowEnvs :
          /\ callLog' = Append(callLog, [fn |-> "A", frame |-> frame2, failed |-> RoboflowRequestFailed(env)])
          /\ LET out == recognizeImage(env)
             IN IF out.raised /\ ~ExceptCatches(out)
                THEN v_pc' = "raised" /\ rf2' = rf2
                ELSE v_pc' = "gm2" /\ rf2' = TryResult(out)
    /\ callsA' = callsA + 1
    /\ UNCHANGED <<image, retry_count, rf1, gm1, frame2, gm2, v_result, v_ret,
                   callsB, supplierCalls, latest>>
    /\ UNCHANGED <<cacheVars, rxVars, unitVars, serVars, grabberAlive, ctlVars, logVars>>

\* The retry branch reading the stale first-attempt Gemini result (gm1 for gm2).
recognizeAndValidate_gm2_StaleGemini ==
    /\ v_pc = "gm2"
    /\ \E env \in GeminiEnvs :
          /\ callLog' = Append(callLog, [fn |-> "B", frame |-> frame2, failed |-> GeminiRequestFailed(env)])
          /\ LET out == recognizeImage_gemini(env)
                 g == TryResult(out)
                 d == DecideRetry(rf2, gm1)
             IN /\ gm2' = g
                /\ v_result' = d.val
                /\ v_ret' = d.ret
                /\ v_pc' = "done"
    /\ callsB' = callsB + 1
    /\ UNCHANGED <<image, retry_count, rf1, gm1, frame2, rf2, callsA, supplierCalls, latest>>
    /\ UNCHANGED <<cacheVars, rxVars, unitVars, serVars, grabberAlive, ctlVars, logVars>>

\* lines 599-613
recognizeAndValidate_gm2 ==
    /\ v_pc = "gm2"
    /\ \E env \in GeminiEnvs :
          /\ callLog' = Append(callLog, [fn |-> "B", frame |-> frame2, failed |-> GeminiRequestFailed(env)])
          /\ LET out == recognizeImage_gemini(env)
                 g == TryResult(out)
                 d == DecideRetry(rf2, g)
             IN IF out.raised /\ ~ExceptCatches(out)
                THEN v_pc' = "raised" /\ UNCHANGED <<gm2, v_result, v_ret>>
                ELSE /\ gm2' = g
                     /\ v_result' = d.val
                     /\ v_ret' = d.ret
                     /\ v_pc' = "done"
    /\ callsB' = callsB + 1
    /\ UNCHANGED <<image, retry_count, rf1, gm1, frame2, rf2, callsA, supplierCalls, latest>>
    /\ UNCHANGED <<cacheVars, rxVars, unitVars, serVars, grabberAlive, ctlVars, logVars>>

ValidatorIdle ==
    /\ rf1 = None /\ gm1 = None /\ rf2 = None /\ gm2 = None
    /\ frame2 = NoFrame
    /\ v_result = 0 /\ v_ret = "none"
    /\ callsA = 0 /\ callsB = 0 /\ supplierCalls = 0
    /\ callLog = <<>>

----------------------------------------------------------------------------
(* SerialESP32Client: connection, command write, reader thread.  Whether a *)
(* port resolves and opens, whether a write succeeds and what a read       *)
(* returns are choices of the environment at each call.                    *)

\* _ensure_connection (lines 133-161): [open, alive, raised] after the call.
\* A successful open starts the reader thread (_start_reader, lines 223-228).
EnsureConnection(open, alive, opens) ==
    IF open THEN [open |-> TRUE, alive |-> alive, raised |-> FALSE]
    ELSE IF opens THEN [open |-> TRUE, alive |-> TRUE, raised |-> FALSE]
    ELSE [open |-> FALSE, alive |-> alive, raised |-> TRUE]

\* send_command (lines 163-184): [open, alive, wrote, raised] after the call.
\* A failed write closes the connection and sets _serial to None.
send_command(open, alive, opens, writes) ==
    LET c == EnsureConnection(open, alive, opens)
    IN IF c.raised THEN [open |-> c.open, alive |-> c.alive, wrote |-> FALSE, raised |-> TRUE]
       ELSE IF writes THEN [open |-> TRUE, alive |-> c.alive, wrote |-> TRUE, raised |-> FALSE]
       ELSE [open |-> FALSE, alive |-> c.alive, wrote |-> FALSE, raised |-> TRUE]

\* what the environment decides when a connection is needed: nothing when one
\* is open, otherwise whether a port resolves and opens
OpenChoices(open) == IF open THEN {TRUE} ELSE BOOLEAN

\* readline raised serial.SerialException
ReadError == <<"SerialException">>

\* _reader_loop, lines 196-211: the connection check and readline, which runs
\* outside every lock.  A line that leaves text after strip() is held in the
\* local text; a timeout, a blank line and an exception start the loop again.
reader_loop_readline ==
    /\ readerAlive
    /\ reader_text = <<>>
    /\ \E opens \in OpenChoices(serialOpen), raw \in DeviceLines \cup {ReadError} :
          LET c == EnsureConnection(serialOpen, readerAlive, opens)
          IN /\ serialOpen' = c.open
             /\ reader_text' = IF c.raised \/ raw = ReadError   \* except Exception: sleep(0.02)
                               THEN <<>>
                               ELSE Strip(raw)
    /\ UNCHANGED <<readerAlive, lastWritten, serialAccessed>>
    /\ UNCHANGED <<rxRaw, prevTuple, rxDone, cacheVars>>
    /\ UNCHANGED <<valVars, latest, unitVars, grabberAlive, ctlVars, logVars>>

\* _reader_loop, lines 212-218: the cache update under _state_lock, on the
\* text read before; the controller may have run in between.
reader_loop_update ==
    /\ reader_text # <<>>
    /\ LET parsed == ParseStateLine([tuple |-> last_state_tuple, line |-> last_state_line],
                                    reader_text)
       IN /\ last_state_tuple' = parsed.tuple
          /\ last_state_line' = parsed.line
    /\ reader_text' = <<>>
    /\ UNCHANGED <<rxRaw, prevTuple, rxDone, serVars>>
    /\ UNCHANGED <<valVars, latest, unitVars, grabberAlive, ctlVars, logVars>>

----------------------------------------------------------------------------
(* FrameGrabber: the capture thread replaces the cached frame.             *)

\* line 522, while not self._stop.is_set(): stop() has set the event (line 550)
StopIsSet == _stop

\* FrameGrabber.stop (lines 549-558): whether the thread is alive when stop()
\* returns.  join(timeout=1.5) is a bounded wait: a thread inside cap.read()
\* or inside its with-block can outlast it.
StopOutcomes(alive) ==
    IF ~alive THEN {FALSE}
    ELSE IF _lock = "grabber" THEN {TRUE}
    ELSE BOOLEAN

\* One iteration of FrameGrabber._loop (lines 521-540).  The iteration that
\* was under way when _stop was set is the thread's last (line 522).
FrameGrabber_loop ==
    /\ grabberAlive
    /\ \E read \in Frames \cup {NoFrame} :            \* NoFrame: ok is False
          latest' = IF read # NoFrame THEN read ELSE latest
    /\ grabberAlive' = ~StopIsSet
    /\ UNCHANGED <<valVars, cacheVars, rxVars, unitVars, serVars, ctlVars, logVars>>

----------------------------------------------------------------------------
(* webcamFeed: the controller loop.                                        *)

\* the key cv2.waitKey reports
Keys == {"", "q"}

\* CATEGORY_ID_TO_SLUG.get(category_id, "garbage"), line 672
SlugOf(id) == IF id \in DOMAIN CATEGORY_ID_TO_SLUG THEN CATEGORY_ID_TO_SLUG[id] ELSE "garbage"

\* publish_classification (lines 360-394): what becomes of one call
PublishOutcomes == {"no_url", "no_session", "recorded", "rejected", "error"}

\* the wait for movement to stop tests isTriggered instead of isMoving
SettleContinues_OnTrigger(state) == state[2]

\* line 690: while isMoving
SettleContinues(state) == state[1]

\* the command is the id of the published slug's default instead of the result
CommandValue_Fixed(id) == GARBAGE

\* line 685: esp32Command(category_id)
CommandValue(id) == id

\* lines 626-627: grabber.start(); the camera may not open
webcamFeed_start ==
    /\ pc = "start"
    /\ \E camera \in BOOLEAN :
          IF camera
          THEN pc' = "WaitFirstFrame" /\ grabberAlive' = TRUE
          ELSE pc' = "failed" /\ grabberAlive' = FALSE
    /\ UNCHANGED <<show_window, max_frames, processed, frame, frame_to_use,
                   category_id, category_slug, isMoving, isTriggered>>
    /\ UNCHANGED <<valVars, latest, cacheVars, rxVars, unitVars, serVars, logVars>>

\* lines 638-649: the head of the loop, waiting for the first frame
LoopHeadStep ==
    /\ pc = "WaitFirstFrame"
    /\ \E key \in Keys :
          IF latest = NoFrame
          THEN /\ frame' = NoFrame
               /\ UNCHANGED <<pc, grabberAlive>>
          ELSE /\ frame' = latest
               /\ IF show_window /\ key = "q"
                  THEN pc' = "stopped" /\ UNCHANGED grabberAlive      \* break
                  ELSE pc' = "WaitTrigger" /\ UNCHANGED grabberAlive
    /\ UNCHANGED <<show_window, max_frames, processed, frame_to_use,
                   category_id, category_slug, isMoving, isTriggered>>
    /\ UNCHANGED <<valVars, latest, cacheVars, rxVars, unitVars, serVars, logVars>>

\* the head of the loop, for the cycles explored
webcamFeed_loop_head ==
    /\ processed < MaxCycles
    /\ LoopHeadStep

\* _ensure_connection called by the controller (get_latest_state, line 234;
\* send_command, line 164) with no port open, lines 134-147: serial.Serial
\* opens one and the call sleeps for 2 s.  The reader thread is started only
\* after the sleep (line 157).
webcamFeed_connect ==
    /\ pc \in {"WaitTrigger", "Command", "WaitSettle"}
    /\ ctl_call = "none"
    /\ ~serialOpen
    /\ serialOpen' = TRUE
    /\ serialAccessed' = TRUE
    /\ ctl_call' = "connect"
    /\ UNCHANGED <<readerAlive, lastWritten, _state_lock, _io_lock>>
    /\ UNCHANGED <<valVars, latest, cacheVars, rxVars, grabberAlive, ctlVars, logVars>>
    /\ UNCHANGED <<connVars, resVars, fgVars, frVars, chVars>>

\* The controller's _ensure_connection is past its sleep (lines 148-157): it
\* found no port at line 134 and opened one.  A call of the controller that
\* finds no port and is not here has failed to open one (line 159).
Connecting == ctl_call = "connect"

\* lines 652-664: one poll of currentState() while waiting for the trigger
webcamFeed_wait_trigger ==
    /\ pc = "WaitTrigger"
    /\ \E key \in Keys :
          LET c == EnsureConnection(serialOpen /\ ~Connecting, readerAlive,
                                    serialOpen \/ Connecting)
          IN /\ serialOpen' = c.open
             /\ readerAlive' = c.alive
             /\ serialAccessed' = TRUE
             /\ isMoving' = last_state_tuple[1]
             /\ isTriggered' = last_state_tuple[2]
             /\ IF last_state_tuple[2]
                THEN pc' = "Capture" /\ UNCHANGED grabberAlive
                ELSE IF show_window /\ latest # NoFrame /\ key = "q"
                     THEN pc' = "interrupted" /\ UNCHANGED grabberAlive  \* raise KeyboardInterrupt
                     ELSE UNCHANGED <<pc, grabberAlive>>
    /\ releaseSeen' = (releaseSeen \/ ~last_state_tuple[2])
    /\ UNCHANGED <<show_window, max_frames, processed, frame, frame_to_use,
                   category_id, category_slug, lastWritten>>
    /\ UNCHANGED <<cycleLog, sendAttempts, commanded, v_returned, published, settlePolled, faults>>
    /\ ctl_call' = "none"
    /\ UNCHANGED <<valVars, latest, cacheVars, rxVars>>
    /\ UNCHANGED <<connVars, resVars, fgVars, frVars, chVars, _state_lock, _io_lock>>

\* lines 666-669: take the freshest frame, or the held one.  The held frame is
\* not read again before line 639 reassigns it: it is cleared here.
webcamFeed_capture ==
    /\ pc = "Capture"
    /\ frame_to_use' = IF latest # NoFrame THEN latest ELSE frame
    /\ pc' = "Classify"
    /\ cycleLog' = <<"Capture">>
    /\ frame' = NoFrame
    /\ UNCHANGED <<show_window, max_frames, processed,
                   category_id, category_slug, isMoving, isTriggered>>
    /\ UNCHANGED <<sendAttempts, commanded, v_returned, published, settlePolled, faults,
                   releaseSeen>>
    /\ UNCHANGED <<valVars, latest, cacheVars, rxVars, unitVars, serVars, grabberAlive>>

\* what the two classifiers can do in one call
RoboflowOutcomes == { recognizeImage(env) : env \in RoboflowEnvs }
GeminiOutcomes == { recognizeImage_gemini(env) : env \in GeminiEnvs }

\* every exception of a classifier leaves recognizeAndValidate
Escapes_Any(out) == out.raised

\* an exception the try block does not catch leaves recognizeAndValidate
Escapes(out) == out.raised /\ ~ExceptCatches(out)

\* lines 671-672: recognizeAndValidate returned id; failed says that a
\* classifier call of the attempt raised.  frame_to_use is not read again before
\* line 669 reassigns it: it is cleared here.
Classified(id, failed) ==
    /\ pc' = "Publish"
    /\ faults' = IF failed THEN faults \cup {"classifier"} ELSE faults
    /\ category_id' = id
    /\ category_slug' = SlugOf(id)
    /\ v_returned' = id
    /\ cycleLog' = Append(cycleLog, "Classify")
    /\ frame_to_use' = NoFrame
    /\ UNCHANGED grabberAlive

\* an exception leaves the loop of webcamFeed
Crashed ==
    /\ pc' = "crashed"
    /\ UNCHANGED grabberAlive
    /\ UNCHANGED <<category_id, category_slug, v_returned, cycleLog, faults, frame_to_use>>

\* line 671, recognizeAndValidate(grabber.get_latest_frame, frame_to_use,
\* retry_count=1) up to the end of the first attempt (lines 567-589), the
\* classifiers' outcomes being drawn from ra and gb
webcamFeed_classify_of(ra, gb) ==
    /\ pc = "Classify"
    /\ \E a \in ra, b \in gb :
          LET d == DecideFirst(TryResult(a), TryResult(b), 1)
          IN IF Escapes(a) \/ Escapes(b) THEN Crashed
             ELSE IF d.ret = "retry"
                  THEN /\ pc' = "ClassifyRetry"
                       /\ faults' = IF a.raised \/ b.raised
                                    THEN faults \cup {"classifier"} ELSE faults
                       /\ UNCHANGED <<category_id, category_slug, v_returned, cycleLog,
                                      grabberAlive, frame_to_use>>
                  ELSE Classified(d.val, a.raised \/ b.raised)
    /\ UNCHANGED <<show_window, max_frames, processed, frame,
                   isMoving, isTriggered>>
    /\ UNCHANGED <<sendAttempts, commanded, published, settlePolled, releaseSeen>>
    /\ UNCHANGED <<valVars, latest, cacheVars, rxVars, unitVars, serVars>>

webcamFeed_classify == webcamFeed_classify_of(RoboflowOutcomes, GeminiOutcomes)

\* the retry of that call (lines 590-613)
webcamFeed_classify_retry_of(ra, gb) ==
    /\ pc = "ClassifyRetry"
    /\ \E a \in ra, b \in gb :
          LET d == DecideRetry(TryResult(a), TryResult(b))
          IN IF Escapes(a) \/ Escapes(b) THEN Crashed
             ELSE Classified(d.val, a.raised \/ b.raised)
    /\ UNCHANGED <<show_window, max_frames, processed, frame,
                   isMoving, isTriggered>>
    /\ UNCHANGED <<sendAttempts, commanded, published, settlePolled, releaseSeen>>
    /\ UNCHANGED <<valVars, latest, cacheVars, rxVars, unitVars, serVars>>

webcamFeed_classify_retry == webcamFeed_classify_retry_of(RoboflowOutcomes, GeminiOutcomes)

\* publish_classification (lines 360-394): its return value
publish_classification(outcome) == outcome = "recorded"

\* lines 674-683: publish_classification, what becomes of the call being
\* drawn from outcomes; it returns False on every failure
webcamFeed_publish_of(outcomes) ==
    /\ pc = "Publish"
    /\ \E outcome \in outcomes :
          /\ published' = IF outcome \in {"recorded", "rejected", "error"} THEN category_slug ELSE ""
          /\ faults' = IF publish_classification(outcome) THEN faults
                       ELSE faults \cup {"publish"}
    /\ cycleLog' = Append(cycleLog, "Publish")
    /\ pc' = "Command"
    /\ UNCHANGED <<show_window, max_frames, processed, frame, frame_to_use,
                   category_id, category_slug, isMoving, isTriggered>>
    /\ UNCHANGED <<sendAttempts, commanded, v_returned, settlePolled, releaseSeen>>
    /\ UNCHANGED <<valVars, latest, cacheVars, rxVars, unitVars, serVars, grabberAlive>>

webcamFeed_publish == webcamFeed_publish_of(PublishOutcomes)

\* esp32Command (lines 269-279): 1 when send_command returned, 0 when it raised
esp32Command(r) == IF r.raised THEN 0 ELSE 1

\* lines 685-686 with esp32Command (269-279): one send_command, errors swallowed
webcamFeed_command ==
    /\ pc = "Command"
    /\ \E writes \in BOOLEAN :
          LET r == send_command(serialOpen /\ ~Connecting, readerAlive,
                                serialOpen \/ Connecting, writes)
          IN /\ serialOpen' = r.open
             /\ readerAlive' = r.alive
             /\ lastWritten' = IF r.wrote THEN CommandValue(category_id) ELSE lastWritten
             /\ faults' = IF esp32Command(r) = 1 THEN faults ELSE faults \cup {"command"}
    /\ serialAccessed' = TRUE
    /\ sendAttempts' = sendAttempts + 1
    /\ commanded' = CommandValue(category_id)
    /\ releaseSeen' = FALSE
    /\ cycleLog' = Append(cycleLog, "Command")
    /\ pc' = "WaitSettle"
    /\ UNCHANGED <<show_window, max_frames, processed, frame, frame_to_use,
                   category_id, category_slug, isMoving, isTriggered>>
    /\ UNCHANGED <<v_returned, published, settlePolled>>
    /\ ctl_call' = "none"
    /\ UNCHANGED <<valVars, latest, cacheVars, rxVars, grabberAlive>>
    /\ UNCHANGED <<connVars, resVars, fgVars, frVars, chVars, _state_lock, _io_lock>>

\* lines 689-701 after get_latest_state has returned the cached tuple: the
\* test of isMoving and the end of the cycle, which leaves count in processed
WaitSettleStep(count) ==
    /\ isMoving' = last_state_tuple[1]
    /\ isTriggered' = last_state_tuple[2]
    /\ releaseSeen' = (releaseSeen \/ ~last_state_tuple[2])
    /\ IF SettleContinues(last_state_tuple)
       THEN /\ settlePolled' = TRUE
            /\ UNCHANGED <<pc, processed, cycleLog, sendAttempts, commanded,
                           v_returned, published, lastWritten, faults,
                           frame, frame_to_use, category_id, category_slug>>
       ELSE /\ processed' = count
            /\ cycleLog' = <<>> /\ sendAttempts' = 0 /\ commanded' = NoCommand
            /\ v_returned' = 0
            /\ published' = "" /\ settlePolled' = FALSE /\ lastWritten' = NoCommand
            /\ faults' = {}
            \* the locals of an iteration are assigned before they are read in
            \* the next one: they are cleared here
            /\ frame' = NoFrame /\ frame_to_use' = NoFrame
            /\ category_id' = 0 /\ category_slug' = ""
            /\ pc' = IF max_frames # NoLimit /\ processed' >= max_frames
                     THEN "stopped"                                      \* break
                     ELSE "WaitFirstFrame"
    /\ UNCHANGED <<show_window, max_frames, grabberAlive>>

\* lines 688-701: one poll of currentState() while the device moves, then the
\* end of the cycle
webcamFeed_wait_settle ==
    /\ pc = "WaitSettle"
    /\ LET c == EnsureConnection(serialOpen /\ ~Connecting, readerAlive,
                                serialOpen \/ Connecting)
       IN /\ serialOpen' = c.open
          /\ readerAlive' = c.alive
    /\ serialAccessed' = TRUE
    /\ WaitSettleStep(processed + 1)                   \* line 695: processed += 1
    /\ ctl_call' = "none"
    /\ UNCHANGED <<valVars, latest, cacheVars, rxVars>>
    /\ UNCHANGED <<connVars, resVars, fgVars, frVars, chVars, _state_lock, _io_lock>>

\* lines 702-705 with FrameGrabber.stop (lines 549-558): the loop was left by
\* break or by an exception; stop() sets _stop and waits for the capture
\* thread for 1.5 s at most
webcamFeed_finally ==
    /\ pc \in {"stopped", "interrupted", "crashed"}
    /\ ~_stop
    /\ _stop' = TRUE
    /\ grabberAlive' \in StopOutcomes(grabberAlive)
    /\ UNCHANGED <<_cap, _thread, _fail_count, _last_reopen, clock, loops, cams, caller>>
    /\ UNCHANGED <<connVars, resVars, frVars, chVars, lockVars>>
    /\ UNCHANGED <<valVars, latest, cacheVars, rxVars, serVars, ctlVars, logVars>>

\* webcamFeed(max_frames, show_window) is called on a fresh process
Init ==
    /\ pc = "start"
    /\ show_window \in BOOLEAN
    /\ max_frames \in {NoLimit} \cup 0..MaxCycles
    /\ grabberAlive = FALSE
    /\ latest = NoFrame
    /\ InitLocals
    /\ InitSerial
    /\ InitCache
    /\ InitRx
    /\ v_pc = "idle" /\ image = NoFrame /\ retry_count = 1
    /\ ValidatorIdle
    /\ InitUnits

Next ==
    \/ webcamFeed_start
    \/ webcamFeed_loop_head
    \/ webcamFeed_connect
    \/ webcamFeed_wait_trigger
    \/ webcamFeed_capture
    \/ webcamFeed_classify
    \/ webcamFeed_classify_retry
    \/ webcamFeed_publish
    \/ webcamFeed_command
    \/ webcamFeed_wait_settle
    \/ webcamFeed_finally
    \/ reader_loop_readline
    \/ reader_loop_update
    \/ FrameGrabber_loop

Spec == Init /\ [][Next]_vars

----------------------------------------------------------------------------
(* The controller with its two background tasks and the three locks they   *)
(* share.  _ensure_connection, readline and cap.read() run outside every   *)
(* lock.  A with-block of the controller (get_latest_state,                *)
(* get_latest_frame, the write of send_command) is one step that needs its *)
(* lock free; the reader and the capture loop enter their with-block in    *)
(* one step and leave it in the next.  The locks are explored with a few   *)
(* outcomes of the classifiers and of the backend, each of which can       *)
(* differ from one call to the next on the same frame: Roboflow finds a    *)
(* can or its requests fail (garbage), Gemini answers 1 or its request     *)
(* raises, the publish is recorded or fails; and with one camera frame.    *)

LiveRoboflowEnvs ==
    { [key |-> TRUE, encodes |-> TRUE, sdk |-> "error", http |-> "error"],
      [key |-> TRUE, encodes |-> TRUE, sdk |-> "Can", http |-> "error"] }
LiveGeminiEnvs ==
    { [key |-> TRUE, request |-> "error", resp |-> "empty", id |-> 0],
      [key |-> TRUE, request |-> "ok", resp |-> "id", id |-> 1] }
LivePublishOutcomes == {"recorded", "error"}
LiveFrames == {1}

\* a with-block that never releases its lock
ReleaseLock_Kept(holder) == holder

\* the end of a with-block (lines 212-218, 530-533): the lock is free again
ReleaseLock(holder) == "free"

\* currentState (lines 397-409) into get_latest_state, lines 233-236: the
\* return of _ensure_connection, under no lock; a failure is swallowed.  The
\* call then waits for _state_lock (line 237).
Live_get_latest_state ==
    /\ pc \in {"WaitTrigger", "WaitSettle"}
    /\ ctl_call \in {"none", "connect"}
    /\ LET c == EnsureConnection(serialOpen /\ ~Connecting, readerAlive,
                                serialOpen \/ Connecting)
       IN /\ serialOpen' = c.open
          /\ readerAlive' = c.alive
    /\ serialAccessed' = TRUE
    /\ ctl_call' = "state"
    /\ UNCHANGED <<lastWritten, _state_lock, _io_lock>>
    /\ UNCHANGED <<valVars, latest, cacheVars, rxVars, grabberAlive, ctlVars, logVars>>
    /\ UNCHANGED <<connVars, resVars, fgVars, frVars, chVars>>

\* lines 237-238, with self._state_lock: return self._last_state_tuple, then
\* lines 653-654 and 664: the test of isTriggered; without a trigger the body
\* of the wait shows a frame (lines 656-658)
Live_wait_trigger ==
    /\ pc = "WaitTrigger"
    /\ ctl_call = "state"
    /\ _state_lock = "free"
    /\ isMoving' = last_state_tuple[1]
    /\ isTriggered' = last_state_tuple[2]
    /\ releaseSeen' = (releaseSeen \/ ~last_state_tuple[2])
    /\ IF last_state_tuple[2]
       THEN pc' = "Capture" /\ ctl_call' = "none"
       ELSE pc' = pc /\ ctl_call' = IF show_window THEN "frame" ELSE "none"
    /\ UNCHANGED <<show_window, max_frames, processed, frame, frame_to_use,
                   category_id, category_slug>>
    /\ UNCHANGED <<cycleLog, sendAttempts, commanded, v_returned, published, settlePolled, faults>>
    /\ UNCHANGED <<valVars, latest, cacheVars, rxVars, serVars, grabberAlive>>
    /\ UNCHANGED <<connVars, resVars, fgVars, frVars, chVars, _state_lock, _io_lock>>

\* lines 656-663: get_latest_frame under FrameGrabber._lock (lines 543-547),
\* imshow, waitKey and the sleep
Live_wait_trigger_show ==
    /\ pc = "WaitTrigger"
    /\ ctl_call = "frame"
    /\ _lock = "free"
    /\ \E key \in Keys :
          pc' = IF latest # NoFrame /\ key = "q" THEN "interrupted" ELSE pc
    /\ ctl_call' = "none"
    /\ UNCHANGED <<show_window, max_frames, processed, frame, frame_to_use,
                   category_id, category_slug, isMoving, isTriggered>>
    /\ UNCHANGED <<valVars, latest, cacheVars, rxVars, serVars, grabberAlive, logVars>>
    /\ UNCHANGED <<connVars, resVars, fgVars, frVars, chVars, _state_lock, _io_lock>>

\* lines 237-238, with self._state_lock: return self._last_state_tuple, then
\* lines 690-701.  With no limit on the cycles line 697 does not read
\* processed, and nothing else does: past MaxCycles it is not counted further.
Live_wait_settle ==
    /\ pc = "WaitSettle"
    /\ ctl_call = "state"
    /\ _state_lock = "free"
    /\ WaitSettleStep(IF processed < MaxCycles THEN processed + 1 ELSE processed)
    /\ ctl_call' = "none"
    /\ UNCHANGED <<serialOpen, readerAlive, serialAccessed>>
    /\ UNCHANGED <<valVars, latest, cacheVars, rxVars>>
    /\ UNCHANGED <<connVars, resVars, fgVars, frVars, chVars, _state_lock, _io_lock>>

\* lines 638-649 with get_latest_frame's with self._lock (line 543)
Live_loop_head ==
    /\ _lock = "free"
    /\ LoopHeadStep

\* lines 666-669 with get_latest_frame's with self._lock (line 543)
Live_capture ==
    /\ _lock = "free"
    /\ webcamFeed_capture

\* lines 567-589: the first attempt, under no lock
Live_classify ==
    webcamFeed_classify_of({ recognizeImage(env) : env \in LiveRoboflowEnvs },
                           { recognizeImage_gemini(env) : env \in LiveGeminiEnvs })

\* lines 590-613: the retry calls get_frame, which takes FrameGrabber._lock
Live_classify_retry ==
    /\ _lock = "free"
    /\ webcamFeed_classify_retry_of({ recognizeImage(env) : env \in LiveRoboflowEnvs },
                                    { recognizeImage_gemini(env) : env \in LiveGeminiEnvs })

\* lines 674-683, under no lock
Live_publish == webcamFeed_publish_of(LivePublishOutcomes)

\* lines 685-686 with send_command's with self._io_lock (line 167), which no
\* other thread takes
Live_command ==
    /\ _io_lock = "free"
    /\ webcamFeed_command

\* the texts readline and strip() can leave
TextLines == { Strip(raw) : raw \in DeviceLines } \ {<<>>}

\* a cache that no line of text produces
NoCache == [tuple |-> <<>>, line |-> <<>>]
\* lines 213-218 on each text: the cache it leaves, NoCache when the text
\* does not match and the cache stays as it is
ParsedTextLines == [t \in TextLines |-> ParseStateLine(NoCache, t)]

\* lines 196-211 on the SerialReader thread, which is not inside its
\* with-block: the connection check and readline, under no lock
Live_reader_readline ==
    /\ _state_lock # "reader"
    /\ reader_loop_readline

\* lines 212-218: the reader, holding a text, enters with self._state_lock
\* and updates the cache
Live_reader_update ==
    /\ reader_text # <<>>
    /\ _state_lock = "free"
    /\ _state_lock' = "reader"
    /\ IF ParsedTextLines[reader_text] = NoCache
       THEN UNCHANGED cacheVars
       ELSE /\ last_state_tuple' = ParsedTextLines[reader_text].tuple
            /\ last_state_line' = ParsedTextLines[reader_text].line
    /\ reader_text' = <<>>
    /\ UNCHANGED <<rxRaw, prevTuple, rxDone, _io_lock, ctl_call>>
    /\ UNCHANGED <<valVars, latest, serVars, grabberAlive, ctlVars, logVars>>
    /\ UNCHANGED <<connVars, resVars, fgVars, frVars, chVars>>

\* line 218, the end of the with-block: _state_lock is released
Live_reader_release ==
    /\ _state_lock = "reader"
    /\ _state_lock' = ReleaseLock(_state_lock)
    /\ UNCHANGED <<_io_lock, ctl_call>>
    /\ UNCHANGED <<valVars, latest, cacheVars, rxVars, serVars, grabberAlive, ctlVars, logVars>>
    /\ UNCHANGED <<connVars, resVars, fgVars, frVars, chVars>>

\* lines 522-530: cap.read(); when ok the capture loop enters with
\* self._lock.  Which frame was read is drawn when it is stored.  A failed
\* read with _stop set is followed by the end of the thread (line 522).
Live_grabber_read ==
    /\ grabberAlive
    /\ _lock = "free"
    /\ \E ok \in BOOLEAN :
          /\ _lock' = IF ok THEN "grabber" ELSE "free"
          /\ grabberAlive' = (ok \/ ~StopIsSet)
    /\ UNCHANGED <<heap, capture, snapshot, writtenWhole, latest>>
    /\ UNCHANGED <<valVars, cacheVars, rxVars, serVars, ctlVars, logVars>>
    /\ UNCHANGED <<connVars, resVars, fgVars, chVars, lockVars>>

\* lines 531-533: self._latest = frame, and the release of the lock; with
\* _stop set the thread ends at line 522
Live_grabber_publish ==
    /\ _lock = "grabber"
    /\ \E read \in LiveFrames : latest' = read
    /\ _lock' = ReleaseLock(_lock)
    /\ grabberAlive' = ~StopIsSet
    /\ UNCHANGED <<heap, capture, snapshot, writtenWhole>>
    /\ UNCHANGED <<valVars, cacheVars, rxVars, serVars, ctlVars, logVars>>
    /\ UNCHANGED <<connVars, resVars, fgVars, chVars, lockVars>>

\* the steps of the controller's thread that enter a with-block
Live_controller_locked ==
    \/ Live_loop_head
    \/ Live_wait_trigger
    \/ Live_wait_trigger_show
    \/ Live_capture
    \/ Live_classify_retry
    \/ Live_command
    \/ Live_wait_settle

\* the steps of the controller's thread
Live_controller ==
    \/ webcamFeed_start
    \/ webcamFeed_connect
    \/ Live_get_latest_state
    \/ Live_classify
    \/ Live_publish
    \/ webcamFeed_finally
    \/ Live_controller_locked

\* the controller's thread, the SerialReader thread and the FrameGrabber thread
NextLive ==
    \/ Live_controller
    \/ Live_reader_readline
    \/ Live_reader_update
    \/ Live_reader_release
    \/ Live_grabber_read
    \/ Live_grabber_publish

\* The controller's thread is scheduled again and again, and each classifier,
\* publish and send call returns: when it can take a step from some point on
\* it takes one.  Waiting for a lock it can take a step only while the lock
\* is free, and threading.Lock hands a released lock to no waiter in
\* particular: nothing here says that the controller gets a lock that is
\* taken again and again.  A daemon thread inside a with-block is scheduled
\* and leaves it; outside one it may run or not.
FairLive ==
    /\ WF_vars(Live_controller)
    /\ WF_vars(Live_reader_release)
    /\ WF_vars(Live_grabber_publish)

\* main() (line 1033) calls webcamFeed() with its defaults (line 618): no
\* cycle limit, the preview window shown
InitLive == Init /\ max_frames = NoLimit /\ show_window = TRUE

SpecLive == InitLive /\ [][NextLive]_vars /\ FairLive

----------------------------------------------------------------------------
(* The validator alone: one call of recognizeAndValidate for every image,  *)
(* every cached frame the supplier may find and every retry_count.         *)

InitValidate ==
    /\ v_pc = "rf1"
    /\ image \in Frames
    /\ retry_count \in 0..MaxRetryCount
    /\ latest \in {NoFrame} \cup Frames
    /\ ValidatorIdle
    /\ InitCache
    /\ InitRx
    /\ InitSerial
    /\ InitOff
    /\ InitUnits

NextValidate ==
    \/ recognizeAndValidate_rf1
    \/ recognizeAndValidate_gm1
    \/ recognizeAndValidate_get_frame
    \/ recognizeAndValidate_rf2
    \/ recognizeAndValidate_gm2

SpecValidate == InitValidate /\ [][NextValidate]_vars

----------------------------------------------------------------------------
(* The parser alone: one iteration of the reader loop on every line, from  *)
(* every cache the four state lines leave behind.                          *)

StateLines ==
    { <<"0", ",", "0">>, <<"0", ",", "1">>, <<"1", ",", "0">>, <<"1", ",", "1">> }

InitParse ==
    /\ \E first \in StateLines \cup {<<>>} :
          LET c == ParseStateLine([tuple |-> <<FALSE, FALSE>>, line |-> <<>>], first)
          IN last_state_tuple = c.tuple /\ last_state_line = c.line
    /\ InitRx
    /\ v_pc = "idle" /\ image = NoFrame /\ retry_count = 1 /\ latest = NoFrame
    /\ ValidatorIdle
    /\ InitSerial
    /\ InitOff
    /\ InitUnits

\* _reader_loop, lines 205-218, for one line read
ReaderLoopLine ==
    /\ ~rxDone
    /\ \E raw \in AllLines :
          LET c == ParseStateLine([tuple |-> last_state_tuple, line |-> last_state_line], raw)
          IN /\ last_state_tuple' = c.tuple
             /\ last_state_line' = c.line
             /\ rxRaw' = raw
    /\ prevTuple' = last_state_tuple
    /\ rxDone' = TRUE
    /\ UNCHANGED reader_text
    /\ UNCHANGED <<valVars, latest, serVars, grabberAlive, ctlVars, logVars, unitVars>>

NextParse == ReaderLoopLine

SpecParse == InitParse /\ [][NextParse]_vars

----------------------------------------------------------------------------
(* SerialESP32Client alone: one thread calls send_command,                 *)
(* get_latest_state, read_line and reset_input_buffer in any order while   *)
(* the SerialReader thread runs _reader_loop, with the identity of the     *)
(* connection each of them uses.  _ensure_connection takes no lock and     *)
(* readline runs outside every lock: each thread moves one access to       *)
(* _serial at a time.  A closed connection neither reads nor writes.       *)

\* connections the model lets the client open
MaxConnections == 2

\* what the environment decides when a connection is needed
ConnectChoices(open, n) ==
    IF open THEN {TRUE} ELSE IF n < MaxConnections THEN BOOLEAN ELSE {FALSE}

\* the connection _ensure_connection returned: the held one, or a new one
\* (0 when it raised)
ConnectionUsed(open, held, n, c) ==
    IF open THEN held ELSE IF c.raised THEN 0 ELSE n + 1

\* the number of connections opened after a call of _ensure_connection
OpenedAfter(open, n, c) == IF ~open /\ ~c.raised THEN n + 1 ELSE n

\* the command values a caller passes
CommandValues == {1, 2, 3}

\* the public functions that begin with _ensure_connection
ClientCalls == {"send", "state", "read_line", "reset"}

\* where a call goes on once _ensure_connection has returned
AfterConnect(op) ==
    CASE op = "send" -> "write"
      [] op = "state" -> "cache"
      [] op = "read_line" -> "readline"
      [] OTHER -> "reset"

\* the rest of the model, which the client alone leaves as it is
SerialFrame ==
    /\ UNCHANGED <<serialAccessed, rxVars, resVars, fgVars, frVars, chVars, lockVars>>
    /\ UNCHANGED <<valVars, latest, grabberAlive, ctlVars, logVars>>

\* a public function is called (lines 164, 188, 233, 248) and reaches the
\* test of line 134 in _ensure_connection, which returns the open connection
SerialESP32Client_call ==
    /\ ser_main.pc = "idle"
    /\ \E op \in ClientCalls, value \in CommandValues :
          /\ (op # "send") => value = 1
          /\ ser_main' = IF serialOpen
                         THEN [pc |-> AfterConnect(op), op |-> op, value |-> value,
                               connection |-> conn]
                         ELSE [pc |-> "open", op |-> op, value |-> value, connection |-> 0]
    /\ UNCHANGED <<conn, opened, writeFailed, readFailed, ser_last, ser_reader>>
    /\ UNCHANGED <<serialOpen, readerAlive, lastWritten, cacheVars>>
    /\ SerialFrame

\* lines 136-147 and 158-159 on the calling thread: self._serial =
\* serial.Serial(...); a failure raises RuntimeError, which get_latest_state
\* swallows (lines 235-236)
SerialESP32Client_open ==
    /\ ser_main.pc = "open"
    /\ \E opens \in ConnectChoices(FALSE, opened) :
          LET c == EnsureConnection(FALSE, readerAlive, opens)
              used == ConnectionUsed(FALSE, conn, opened, c)
          IN /\ opened' = OpenedAfter(FALSE, opened, c)
             /\ IF ~c.raised
                THEN /\ conn' = used
                     /\ serialOpen' = TRUE
                     /\ ser_main' = [ser_main EXCEPT !.pc = "start_reader"]
                     /\ UNCHANGED ser_last
                ELSE /\ UNCHANGED <<conn, serialOpen>>
                     /\ IF ser_main.op = "state"
                        THEN /\ ser_main' = [ser_main EXCEPT !.pc = "cache"]
                             /\ UNCHANGED ser_last
                        ELSE /\ ser_main' = SerMainIdle
                             /\ ser_last' = [op |-> ser_main.op, conn |-> 0, ok |-> FALSE,
                                             raised |-> TRUE]
    /\ UNCHANGED <<writeFailed, readFailed, ser_reader>>
    /\ UNCHANGED <<readerAlive, lastWritten, cacheVars>>
    /\ SerialFrame

\* lines 157 and 161 on the calling thread: _start_reader() (lines 223-228),
\* then return self._serial as it is by now
SerialESP32Client_start_reader ==
    /\ ser_main.pc = "start_reader"
    /\ readerAlive' = TRUE
    /\ ser_reader' = IF readerAlive THEN ser_reader ELSE SerReaderTop
    /\ ser_main' = [ser_main EXCEPT !.pc = AfterConnect(ser_main.op), !.connection = conn]
    /\ UNCHANGED <<conn, opened, writeFailed, readFailed, ser_last>>
    /\ UNCHANGED <<serialOpen, lastWritten, cacheVars>>
    /\ SerialFrame

\* lines 165-180: the write under _io_lock; on SerialException
\* connection.close()
SerialESP32Client_send_command ==
    /\ ser_main.pc = "write"
    /\ \E writes \in BOOLEAN :
          IF writes
          THEN /\ lastWritten' = ser_main.value
               /\ ser_last' = [op |-> "send", conn |-> ser_main.connection, ok |-> TRUE,
                               raised |-> FALSE]
               /\ ser_main' = SerMainIdle
               /\ UNCHANGED <<writeFailed, serialOpen>>
          ELSE /\ writeFailed' = writeFailed \cup {ser_main.connection}
               /\ serialOpen' = (serialOpen /\ conn # ser_main.connection)
               /\ ser_main' = [ser_main EXCEPT !.pc = "discard"]
               /\ UNCHANGED <<lastWritten, ser_last>>
    /\ UNCHANGED <<conn, opened, readFailed, ser_reader>>
    /\ UNCHANGED <<readerAlive, cacheVars>>
    /\ SerialFrame

\* the failed connection is left in _serial
DiscardedSerial_Kept(held) == held

\* line 182: self._serial = None
DiscardedSerial(held) == 0

\* lines 182-183: self._serial = None, raise RuntimeError
SerialESP32Client_send_command_discard ==
    /\ ser_main.pc = "discard"
    /\ conn' = DiscardedSerial(conn)
    /\ serialOpen' = (conn' # 0 /\ conn' \notin writeFailed)
    /\ ser_last' = [op |-> "send", conn |-> ser_main.connection, ok |-> FALSE,
                    raised |-> TRUE]
    /\ ser_main' = SerMainIdle
    /\ UNCHANGED <<opened, writeFailed, readFailed, ser_reader>>
    /\ UNCHANGED <<readerAlive, lastWritten, cacheVars>>
    /\ SerialFrame

\* get_latest_state, lines 237-238: the cache is returned, whether or not a
\* connection is held
SerialESP32Client_get_latest_state ==
    /\ ser_main.pc = "cache"
    /\ ser_last' = [op |-> "state", conn |-> ser_main.connection,
                    ok |-> ser_main.connection # 0, raised |-> FALSE]
    /\ ser_main' = SerMainIdle
    /\ UNCHANGED <<conn, opened, writeFailed, readFailed, ser_reader>>
    /\ UNCHANGED <<serialOpen, readerAlive, lastWritten, cacheVars>>
    /\ SerialFrame

\* read_line, lines 189-193, and reset_input_buffer, lines 249-256: one
\* operation on the connection, which returns or raises RuntimeError
SerialESP32Client_read_line ==
    /\ ser_main.pc \in {"readline", "reset"}
    /\ \E ok \in BOOLEAN :
          /\ ok => ser_main.connection \notin writeFailed
          /\ ser_last' = [op |-> ser_main.op, conn |-> ser_main.connection, ok |-> ok,
                          raised |-> ~ok]
    /\ ser_main' = SerMainIdle
    /\ UNCHANGED <<conn, opened, writeFailed, readFailed, ser_reader>>
    /\ UNCHANGED <<serialOpen, readerAlive, lastWritten, cacheVars>>
    /\ SerialFrame

\* lines 219-221: what _serial holds after a read raised on connection k
\* (the except clause only sleeps)
ReaderAfterError(k) == k

\* _reader_loop, lines 196-199: if not self._serial or not self._serial.is_open
SerialESP32Client_reader_loop ==
    /\ ser_reader.pc = "check"
    /\ ser_reader' = [ser_reader EXCEPT !.pc = IF serialOpen THEN "take" ELSE "ensure"]
    /\ UNCHANGED <<conn, opened, writeFailed, readFailed, ser_last, ser_main>>
    /\ UNCHANGED <<serialOpen, readerAlive, lastWritten, cacheVars>>
    /\ SerialFrame

\* line 200 into line 134: the test of _ensure_connection on the reader's thread
SerialESP32Client_reader_loop_ensure ==
    /\ ser_reader.pc = "ensure"
    /\ ser_reader' = [ser_reader EXCEPT !.pc = IF serialOpen THEN "take" ELSE "open"]
    /\ UNCHANGED <<conn, opened, writeFailed, readFailed, ser_last, ser_main>>
    /\ UNCHANGED <<serialOpen, readerAlive, lastWritten, cacheVars>>
    /\ SerialFrame

\* lines 136-161 on the reader's thread: self._serial = serial.Serial(...) and
\* _start_reader(), which finds the thread alive; a failure is caught at line 219
SerialESP32Client_reader_loop_open ==
    /\ ser_reader.pc = "open"
    /\ \E opens \in ConnectChoices(FALSE, opened) :
          LET c == EnsureConnection(FALSE, readerAlive, opens)
              used == ConnectionUsed(FALSE, conn, opened, c)
          IN /\ opened' = OpenedAfter(FALSE, opened, c)
             /\ IF ~c.raised
                THEN /\ conn' = used
                     /\ serialOpen' = TRUE
                     /\ ser_reader' = [ser_reader EXCEPT !.pc = "take"]
                     /\ UNCHANGED ser_last
                ELSE /\ ser_reader' = SerReaderTop
                     /\ ser_last' = [op |-> "read", conn |-> 0, ok |-> FALSE, raised |-> FALSE]
                     /\ UNCHANGED <<conn, serialOpen>>
    /\ UNCHANGED <<writeFailed, readFailed, ser_main>>
    /\ UNCHANGED <<readerAlive, lastWritten, cacheVars>>
    /\ SerialFrame

\* lines 201-204: conn = self._serial; None sleeps and starts over
SerialESP32Client_reader_loop_take ==
    /\ ser_reader.pc = "take"
    /\ ser_reader' = IF conn = 0 THEN SerReaderTop
                     ELSE [pc |-> "readline", connection |-> conn, text |-> <<>>]
    /\ UNCHANGED <<conn, opened, writeFailed, readFailed, ser_last, ser_main>>
    /\ UNCHANGED <<serialOpen, readerAlive, lastWritten, cacheVars>>
    /\ SerialFrame

\* lines 205-211: conn.readline() returns or raises, outside every lock; a
\* timeout and a blank line start the loop again
SerialESP32Client_reader_loop_readline ==
    /\ ser_reader.pc = "readline"
    /\ \E raw \in DeviceLines \cup {ReadError} :
          /\ (raw # ReadError) => ser_reader.connection \notin writeFailed
          /\ IF raw = ReadError
             THEN /\ readFailed' = readFailed \cup {ser_reader.connection}
                  /\ conn' = IF conn = ser_reader.connection
                             THEN ReaderAfterError(ser_reader.connection) ELSE conn
                  /\ ser_last' = [op |-> "read", conn |-> ser_reader.connection,
                                  ok |-> FALSE, raised |-> FALSE]
                  /\ ser_reader' = SerReaderTop
             ELSE /\ UNCHANGED <<readFailed, conn>>
                  /\ IF Strip(raw) = <<>>
                     THEN /\ ser_last' = [op |-> "read", conn |-> ser_reader.connection,
                                          ok |-> TRUE, raised |-> FALSE]
                          /\ ser_reader' = SerReaderTop
                     ELSE /\ ser_reader' = [ser_reader EXCEPT !.pc = "update",
                                                               !.text = Strip(raw)]
                          /\ UNCHANGED ser_last
    /\ UNCHANGED <<opened, writeFailed, ser_main>>
    /\ UNCHANGED <<serialOpen, readerAlive, lastWritten, cacheVars>>
    /\ SerialFrame

\* lines 212-218: the cache update under _state_lock, on the text read before
SerialESP32Client_reader_loop_update ==
    /\ ser_reader.pc = "update"
    /\ LET parsed == ParseStateLine([tuple |-> last_state_tuple, line |-> last_state_line],
                                    ser_reader.text)
       IN /\ last_state_tuple' = parsed.tuple
          /\ last_state_line' = parsed.line
    /\ ser_last' = [op |-> "read", conn |-> ser_reader.connection, ok |-> TRUE,
                    raised |-> FALSE]
    /\ ser_reader' = SerReaderTop
    /\ UNCHANGED <<conn, opened, writeFailed, readFailed, ser_main>>
    /\ UNCHANGED <<serialOpen, readerAlive, lastWritten>>
    /\ SerialFrame

InitSerialClient ==
    /\ InitSerial
    /\ InitCache
    /\ InitRx
    /\ InitUnits
    /\ v_pc = "idle" /\ image = NoFrame /\ retry_count = 1 /\ latest = NoFrame
    /\ ValidatorIdle
    /\ InitOff

NextSerial ==
    \/ SerialESP32Client_call
    \/ SerialESP32Client_open
    \/ SerialESP32Client_start_reader
    \/ SerialESP32Client_send_command
    \/ SerialESP32Client_send_command_discard
    \/ SerialESP32Client_get_latest_state
    \/ SerialESP32Client_read_line
    \/ SerialESP32Client_reader_loop
    \/ SerialESP32Client_reader_loop_ensure
    \/ SerialESP32Client_reader_loop_open
    \/ SerialESP32Client_reader_loop_take
    \/ SerialESP32Client_reader_loop_readline
    \/ SerialESP32Client_reader_loop_update

SpecSerial == InitSerialClient /\ [][NextSerial]_vars

----------------------------------------------------------------------------
(* SerialESP32Client alone, statement by statement: the controller's       *)
(* thread calls get_latest_state and send_command, the SerialReader thread *)
(* runs _reader_loop.  _ensure_connection takes no lock, and readline is   *)
(* called outside _io_lock.  Whether a port opens, whether a second handle *)
(* on an open port is granted (POSIX grants it, Windows refuses) and       *)
(* whether a write succeeds are choices of the environment.                *)

\* _start_reader without the test of line 224
ReaderIsAlive_Never(rt, rs) == FALSE

\* line 224: self._reader_thread and self._reader_thread.is_alive(); the
\* reader thread never returns from _reader_loop
ReaderIsAlive(rt, rs) == rt # 0 /\ rs[rt].pc # "unborn"

\* line 134: self._serial and self._serial.is_open
SerialIsOpen(s, hs) == s # 0 /\ hs[s] = "open"

FreeHandles(hs) == { h \in HandleIds : hs[h] = "none" }
NewHandle(hs) == CHOOSE h \in FreeHandles(hs) : \A k \in FreeHandles(hs) : h <= k
\* whether _resolve_port and serial.Serial(...) succeed
SerialOpenChoices(hs) == IF FreeHandles(hs) = {} THEN {FALSE} ELSE BOOLEAN
UnbornReaders(rs) == { r \in ReaderIds : rs[r].pc = "unborn" }

\* get_latest_state (line 233), send_command (line 164), read_line (line 188)
\* or reset_input_buffer (line 248) is called and reaches the test of line 134
\* in _ensure_connection
Channel_main_call ==
    /\ main.pc = "idle"
    /\ \E op \in ClientCalls, value \in CommandValues :
          /\ (op # "send") => value = 1
          /\ main' = IF SerialIsOpen(_serial, handles)
                     THEN IF op = "state" THEN MainIdle
                          ELSE [pc |-> AfterConnect(op), op |-> op, value |-> value,
                                connection |-> _serial]
                     ELSE [pc |-> "open", op |-> op, value |-> value, connection |-> 0]
    /\ UNCHANGED <<_serial, handles, _reader_thread, readers>>
    /\ UNCHANGED <<connVars, resVars, fgVars, frVars, lockVars>>
    /\ UNCHANGED <<valVars, latest, cacheVars, rxVars, serVars, grabberAlive, ctlVars, logVars>>

\* lines 137-147 on the controller's thread: self._serial = serial.Serial(...);
\* a failure raises RuntimeError, which get_latest_state and esp32Command swallow
Channel_main_open ==
    /\ main.pc = "open"
    /\ \E isOpened \in SerialOpenChoices(handles) :
          IF isOpened
          THEN /\ handles' = [handles EXCEPT ![NewHandle(handles)] = "open"]
               /\ _serial' = NewHandle(handles)
               /\ main' = [main EXCEPT !.pc = "start_reader"]
          ELSE /\ main' = MainIdle
               /\ UNCHANGED <<_serial, handles>>
    /\ UNCHANGED <<_reader_thread, readers>>
    /\ UNCHANGED <<connVars, resVars, fgVars, frVars, lockVars>>
    /\ UNCHANGED <<valVars, latest, cacheVars, rxVars, serVars, grabberAlive, ctlVars, logVars>>

\* lines 157 and 161 on the controller's thread: _start_reader(), then
\* return self._serial
Channel_main_start_reader ==
    /\ main.pc = "start_reader"
    /\ IF ReaderIsAlive(_reader_thread, readers) \/ UnbornReaders(readers) = {}
       THEN UNCHANGED <<_reader_thread, readers>>
       ELSE LET r == CHOOSE u \in UnbornReaders(readers) :
                         \A v \in UnbornReaders(readers) : u <= v
            IN /\ _reader_thread' = r
               /\ readers' = [readers EXCEPT ![r] = [pc |-> "check", conn |-> 0, text |-> <<>>]]
    /\ main' = IF main.op = "state" THEN MainIdle
               ELSE [main EXCEPT !.pc = AfterConnect(main.op), !.connection = _serial]
    /\ UNCHANGED <<_serial, handles>>
    /\ UNCHANGED <<connVars, resVars, fgVars, frVars, lockVars>>
    /\ UNCHANGED <<valVars, latest, cacheVars, rxVars, serVars, grabberAlive, ctlVars, logVars>>

\* lines 166-180: the write under _io_lock, which puts the value on the wire;
\* on SerialException connection.close()
Channel_main_write ==
    /\ main.pc = "write"
    /\ \E writes \in BOOLEAN :
          /\ writes => handles[main.connection] = "open"
          /\ IF writes
             THEN /\ lastWritten' = main.value
                  /\ main' = MainIdle
                  /\ UNCHANGED handles
             ELSE /\ handles' = [handles EXCEPT ![main.connection] = "closed"]
                  /\ main' = [main EXCEPT !.pc = "discard"]
                  /\ UNCHANGED lastWritten
    /\ UNCHANGED <<_serial, _reader_thread, readers>>
    /\ UNCHANGED <<connVars, resVars, fgVars, frVars, lockVars>>
    /\ UNCHANGED <<serialOpen, readerAlive, serialAccessed>>
    /\ UNCHANGED <<valVars, latest, cacheVars, rxVars, grabberAlive, ctlVars, logVars>>

\* lines 182-183: self._serial = None, raise RuntimeError
Channel_main_discard ==
    /\ main.pc = "discard"
    /\ _serial' = 0
    /\ main' = MainIdle
    /\ UNCHANGED <<handles, _reader_thread, readers>>
    /\ UNCHANGED <<connVars, resVars, fgVars, frVars, lockVars>>
    /\ UNCHANGED <<valVars, latest, cacheVars, rxVars, serVars, grabberAlive, ctlVars, logVars>>

\* read_line, lines 189-193, and reset_input_buffer, lines 249-256: one
\* operation on the connection, which returns or raises
Channel_main_read_line ==
    /\ main.pc \in {"readline", "reset"}
    /\ main' = MainIdle
    /\ UNCHANGED <<_serial, handles, _reader_thread, readers>>
    /\ UNCHANGED <<connVars, resVars, fgVars, frVars, lockVars>>
    /\ UNCHANGED <<valVars, latest, cacheVars, rxVars, serVars, grabberAlive, ctlVars, logVars>>

\* line 199: if not self._serial or not self._serial.is_open
Channel_reader_check(r) ==
    /\ readers[r].pc = "check"
    /\ readers' = [readers EXCEPT ![r].pc =
                      IF SerialIsOpen(_serial, handles) THEN "take" ELSE "ensure"]
    /\ UNCHANGED <<_serial, handles, _reader_thread, main>>
    /\ UNCHANGED <<connVars, resVars, fgVars, frVars, lockVars>>
    /\ UNCHANGED <<valVars, latest, cacheVars, rxVars, serVars, grabberAlive, ctlVars, logVars>>

\* line 200 into line 134: the test of _ensure_connection on the reader's thread
Channel_reader_ensure(r) ==
    /\ readers[r].pc = "ensure"
    /\ readers' = [readers EXCEPT ![r].pc =
                      IF SerialIsOpen(_serial, handles) THEN "take" ELSE "open"]
    /\ UNCHANGED <<_serial, handles, _reader_thread, main>>
    /\ UNCHANGED <<connVars, resVars, fgVars, frVars, lockVars>>
    /\ UNCHANGED <<valVars, latest, cacheVars, rxVars, serVars, grabberAlive, ctlVars, logVars>>

\* lines 137-147 on the reader's thread; a failure is caught at line 219
Channel_reader_open(r) ==
    /\ readers[r].pc = "open"
    /\ \E isOpened \in SerialOpenChoices(handles) :
          IF isOpened
          THEN /\ handles' = [handles EXCEPT ![NewHandle(handles)] = "open"]
               /\ _serial' = NewHandle(handles)
               /\ readers' = [readers EXCEPT ![r].pc = "start_reader"]
          ELSE /\ readers' = [readers EXCEPT ![r].pc = "check"]
               /\ UNCHANGED <<_serial, handles>>
    /\ UNCHANGED <<_reader_thread, main>>
    /\ UNCHANGED <<connVars, resVars, fgVars, frVars, lockVars>>
    /\ UNCHANGED <<valVars, latest, cacheVars, rxVars, serVars, grabberAlive, ctlVars, logVars>>

\* line 157 on the reader's thread: _start_reader()
Channel_reader_start_reader(r) ==
    /\ readers[r].pc = "start_reader"
    /\ IF ReaderIsAlive(_reader_thread, readers) \/ UnbornReaders(readers) = {}
       THEN /\ readers' = [readers EXCEPT ![r].pc = "take"]
            /\ UNCHANGED _reader_thread
       ELSE LET u == CHOOSE x \in UnbornReaders(readers) :
                         \A v \in UnbornReaders(readers) : x <= v
            IN /\ _reader_thread' = u
               /\ readers' = [readers EXCEPT ![r].pc = "take",
                                              ![u] = [pc |-> "check", conn |-> 0, text |-> <<>>]]
    /\ UNCHANGED <<_serial, handles, main>>
    /\ UNCHANGED <<connVars, resVars, fgVars, frVars, lockVars>>
    /\ UNCHANGED <<valVars, latest, cacheVars, rxVars, serVars, grabberAlive, ctlVars, logVars>>

\* lines 201-204: conn = self._serial; None sleeps and starts over
Channel_reader_take(r) ==
    /\ readers[r].pc = "take"
    /\ readers' = [readers EXCEPT ![r] =
                      IF _serial = 0 THEN [pc |-> "check", conn |-> 0, text |-> <<>>]
                      ELSE [pc |-> "readline", conn |-> _serial, text |-> <<>>]]
    /\ UNCHANGED <<_serial, handles, _reader_thread, main>>
    /\ UNCHANGED <<connVars, resVars, fgVars, frVars, lockVars>>
    /\ UNCHANGED <<valVars, latest, cacheVars, rxVars, serVars, grabberAlive, ctlVars, logVars>>

\* lines 205-211 and 219-221: conn.readline() returns or raises, outside every
\* lock; a line with text after strip() goes on to the cache update, anything
\* else starts the loop over
Channel_reader_readline(r) ==
    /\ readers[r].pc = "readline"
    /\ \E raw \in DeviceLines \cup {ReadError} :
          /\ (raw # ReadError) => handles[readers[r].conn] = "open"
          /\ readers' = [readers EXCEPT ![r] =
                            IF raw = ReadError \/ Strip(raw) = <<>>
                            THEN [pc |-> "check", conn |-> 0, text |-> <<>>]
                            ELSE [pc |-> "update", conn |-> readers[r].conn,
                                  text |-> Strip(raw)]]
    /\ UNCHANGED <<_serial, handles, _reader_thread, main>>
    /\ UNCHANGED <<connVars, resVars, fgVars, frVars, lockVars>>
    /\ UNCHANGED <<valVars, latest, cacheVars, rxVars, serVars, grabberAlive, ctlVars, logVars>>

\* lines 212-218: the cache update under _state_lock, on the text read before
Channel_reader_update(r) ==
    /\ readers[r].pc = "update"
    /\ LET parsed == ParseStateLine([tuple |-> last_state_tuple, line |-> last_state_line],
                                    readers[r].text)
       IN /\ last_state_tuple' = parsed.tuple
          /\ last_state_line' = parsed.line
    /\ readers' = [readers EXCEPT ![r] = [pc |-> "check", conn |-> 0, text |-> <<>>]]
    /\ UNCHANGED <<_serial, handles, _reader_thread, main>>
    /\ UNCHANGED <<connVars, resVars, fgVars, frVars, lockVars>>
    /\ UNCHANGED <<valVars, latest, rxVars, serVars, grabberAlive, ctlVars, logVars>>

InitChannelAlone ==
    /\ InitUnits
    /\ InitSerial
    /\ InitCache
    /\ InitRx
    /\ v_pc = "idle" /\ image = NoFrame /\ retry_count = 1 /\ latest = NoFrame
    /\ ValidatorIdle
    /\ InitOff

NextChannel ==
    \/ Channel_main_call
    \/ Channel_main_open
    \/ Channel_main_start_reader
    \/ Channel_main_write
    \/ Channel_main_discard
    \/ Channel_main_read_line
    \/ \E r \in ReaderIds :
          \/ Channel_reader_check(r)
          \/ Channel_reader_ensure(r)
          \/ Channel_reader_open(r)
          \/ Channel_reader_start_reader(r)
          \/ Channel_reader_take(r)
          \/ Channel_reader_readline(r)
          \/ Channel_reader_update(r)

SpecChannel == InitChannelAlone /\ [][NextChannel]_vars

----------------------------------------------------------------------------
(* SerialESP32Client._resolve_port alone: one call for every override and  *)
(* every list of ports.  Strings are sequences of one-character strings.   *)

\* longest list of ports enumerated
MaxPorts == 3

_PREFERRED_KEYWORDS ==
    { <<"a", "r", "d", "u", "i", "n", "o">>,
      <<"e", "s", "p">>,
      <<"c", "p", "2", "1", "0">>,
      <<"c", "h", "3", "4", "0">>,
      <<"f", "t", "d", "i">>,
      <<"f", "t", "2", "3", "2">>,
      <<"w", "c", "h">>,
      <<"s", "i", "l", "i", "c", "o", "n", " ", "l", "a", "b", "s">>,
      <<"u", "s", "b", "s", "e", "r", "i", "a", "l">>,
      <<"u", "s", "b", " ", "m", "o", "d", "e", "m">>,
      <<"u", "s", "b", "m", "o", "d", "e", "m">>,
      <<"s", "e", "r", "i", "a", "l">>,
      <<"t", "t", "y", "a", "c", "m">>,
      <<"t", "t", "y", "u", "s", "b">> }

\* the tokens looked for in the device path, line 119
DeviceKeywords ==
    { <<"u", "s", "b", "m", "o", "d", "e", "m">>,
      <<"u", "s", "b", "s", "e", "r", "i", "a", "l">>,
      <<"t", "t", "y", "a", "c", "m">>,
      <<"t", "t", "y", "u", "s", "b">>,
      <<"c", "u", ".", "u", "s", "b">>,
      <<"t", "t", "y", ".", "u", "s", "b">> }

UpperLetters == <<"A", "B", "C", "D", "E", "F", "G", "H", "I", "J", "K", "L", "M", "N", "O", "P", "Q", "R", "S", "T", "U", "V", "W", "X", "Y", "Z">>
LowerLetters == <<"a", "b", "c", "d", "e", "f", "g", "h", "i", "j", "k", "l", "m", "n", "o", "p", "q", "r", "s", "t", "u", "v", "w", "x", "y", "z">>

\* str.lower(), one character
Lower(c) ==
    IF \E i \in 1..Len(UpperLetters) : UpperLetters[i] = c
    THEN LowerLetters[CHOOSE i \in 1..Len(UpperLetters) : UpperLetters[i] = c]
    ELSE c

\* str.lower()
LowerStr(t) == [i \in 1..Len(t) |-> Lower(t[i])]

\* keyword in text
Contains(t, kw) ==
    \E i \in 1..(Len(t) - Len(kw) + 1) : SubSeq(t, i, i + Len(kw) - 1) = kw

\* _matches(port), lines 112-120 (a missing field is the empty string)
_matches(port) ==
    \/ \E kw \in _PREFERRED_KEYWORDS : Contains(LowerStr(port.description), kw)
    \/ \E kw \in _PREFERRED_KEYWORDS : Contains(LowerStr(port.manufacturer), kw)
    \/ \E kw \in DeviceKeywords : Contains(LowerStr(port.device), kw)

\* the selection that ignores the keywords
SelectPort_FirstEnumerated(ps) == ps[1]

\* lines 122-124: the first port that matches, else the first port
SelectPort(ps) ==
    LET prioritized == SelectSeq(ps, _matches)
    IN IF prioritized # <<>> THEN prioritized[1] ELSE ps[1]

\* _auto_detect_port, lines 107-126
_auto_detect_port(ps) ==
    IF ps = <<>> THEN [done |-> TRUE, raised |-> TRUE, device |-> <<>>]
    ELSE [done |-> TRUE, raised |-> FALSE, device |-> SelectPort(ps).device]

\* __init__, line 89: (com_override or "").strip() or None
ComOverride(arg) == Strip(arg)

\* _resolve_port, lines 128-131
_resolve_port(arg, ps) ==
    IF ComOverride(arg) # <<>>
    THEN [done |-> TRUE, raised |-> FALSE, device |-> ComOverride(arg)]
    ELSE _auto_detect_port(ps)

\* the ports of the model: device, description, manufacturer
GenericPortA ==
    [device |-> <<"C", "O", "M", "1">>,
       description |-> <<"C", "o", "m", "m", "u", "n", "i", "c", "a", "t", "i", "o", "n", "s", " ", "P", "o", "r", "t">>,
       manufacturer |-> <<"(", "S", "t", "a", "n", "d", "a", "r", "d", " ", "p", "o", "r", "t", " ", "t", "y", "p", "e", "s", ")">>]
HintedPort ==
    [device |-> <<"C", "O", "M", "7">>,
       description |-> <<"U", "S", "B", "-", "S", "E", "R", "I", "A", "L", " ", "C", "H", "3", "4", "0">>,
       manufacturer |-> <<"w", "c", "h", ".", "c", "n">>]
GenericPortB ==
    [device |-> <<"/", "d", "e", "v", "/", "t", "t", "y", "S", "0">>,
       description |-> <<"t", "t", "y", "S", "0">>,
       manufacturer |-> <<>>]
DevicePathPort ==
    [device |-> <<"/", "d", "e", "v", "/", "t", "t", "y", "U", "S", "B", "0">>,
       description |-> <<"n", "/", "a">>,
       manufacturer |-> <<>>]
ManufacturerPort ==
    [device |-> <<"C", "O", "M", "4">>,
       description |-> <<"U", "S", "B", " ", "D", "e", "v", "i", "c", "e">>,
       manufacturer |-> <<"F", "T", "D", "I">>]

PortPool == {GenericPortA, HintedPort, GenericPortB, DevicePathPort, ManufacturerPort}

PortLists == UNION { [1..n -> PortPool] : n \in 0..MaxPorts }

\* the com_override arguments: None, blank, a device path, one with blanks around
Overrides == { <<>>, <<" ", " ">>, <<"C", "O", "M", "9">>, <<" ", "C", "O", "M", "9", " ">> }

InitResolve ==
    /\ com_override \in Overrides
    /\ ports \in PortLists
    /\ resolved = Unresolved
    /\ InitConn
    /\ InitGrabber
    /\ InitFrames
    /\ InitChannel
    /\ InitLocks
    /\ InitSerial
    /\ InitCache
    /\ InitRx
    /\ v_pc = "idle" /\ image = NoFrame /\ retry_count = 1 /\ latest = NoFrame
    /\ ValidatorIdle
    /\ InitOff

\* one call of _resolve_port
ResolvePort ==
    /\ ~resolved.done
    /\ resolved' = _resolve_port(com_override, ports)
    /\ UNCHANGED <<com_override, ports, connVars, fgVars, frVars, chVars, lockVars>>
    /\ UNCHANGED <<valVars, latest, cacheVars, rxVars, serVars, grabberAlive, ctlVars, logVars>>

NextResolve == ResolvePort

SpecResolve == InitResolve /\ [][NextResolve]_vars

----------------------------------------------------------------------------
(* FrameGrabber alone: one thread calls start() and stop() in any order     *)
(* while the capture threads run _loop.  A thread is at "top" (the test of  *)
(* the while), at "cap" (reading _cap), in "read" (inside cap.read()), at   *)
(* "reopen" (entering _maybe_reopen) or at "open" (inside _maybe_reopen,    *)
(* past the release).                                                      *)

\* FrameGrabber._max_fail_before_reopen, line 493
_max_fail_before_reopen == 60

\* _thread is alive never holds
ThreadIsAlive_Never(th, ls) == FALSE

\* self._thread and self._thread.is_alive(), lines 497 and 551
ThreadIsAlive(th, ls) == th # 0 /\ ls[th].pc \notin {"unborn", "dead"}

\* cap is None or not cap.isOpened(), line 524
CapUnusable(c, cs) == c = 0 \/ c = NotOpened \/ cs[c] # "open"

\* the camera handle ids not used yet
FreeCameras(cs) == { c \in CameraIds : cs[c] = "none" }

\* the handle a new successful open gets
NewCamera(cs) == CHOOSE c \in FreeCameras(cs) : \A d \in FreeCameras(cs) : c <= d

\* whether _open_camera can return an opened camera
OpenCameraChoices(cs) == IF FreeCameras(cs) = {} THEN {FALSE} ELSE BOOLEAN

\* cap.release() on the object c
Released(cs, c) == IF c \in CameraIds THEN [cs EXCEPT ![c] = "released"] ELSE cs

\* the thread ids not used yet
UnbornThreads(ls) == { t \in ThreadIds : ls[t].pc = "unborn" }

\* start(), lines 496-505
FrameGrabber_start ==
    /\ caller.pc = "idle"
    /\ UnbornThreads(loops) # {}
    /\ IF ThreadIsAlive(_thread, loops)
       THEN /\ caller' = [pc |-> "idle", last |-> "start"]
            /\ UNCHANGED <<_cap, _stop, _thread, loops, cams>>
       ELSE \E isOpened \in OpenCameraChoices(cams) :
               IF isOpened
               THEN LET t == CHOOSE u \in UnbornThreads(loops) :
                                 \A v \in UnbornThreads(loops) : u <= v
                    IN /\ _cap' = NewCamera(cams)
                       /\ cams' = [cams EXCEPT ![NewCamera(cams)] = "open"]
                       /\ _stop' = FALSE
                       /\ _thread' = t
                       /\ loops' = [loops EXCEPT ![t] = [pc |-> "top", cap |-> 0, ok |-> FALSE]]
                       /\ caller' = [pc |-> "idle", last |-> "start"]
               ELSE /\ _cap' = NotOpened
                    /\ caller' = [pc |-> "idle", last |-> "start_raised"]
                    /\ UNCHANGED <<_stop, _thread, loops, cams>>
    /\ UNCHANGED <<_fail_count, _last_reopen, clock, latest, frVars, connVars, resVars, chVars, lockVars>>
    /\ UNCHANGED <<valVars, cacheVars, rxVars, serVars, grabberAlive, ctlVars, logVars>>

\* stop(), lines 550-551: set the flag, then join the thread if it is alive
FrameGrabber_stop ==
    /\ caller.pc = "idle"
    /\ _stop' = TRUE
    /\ caller' = [caller EXCEPT !.pc = IF ThreadIsAlive(_thread, loops) THEN "join" ELSE "release"]
    /\ UNCHANGED <<_cap, _thread, _fail_count, _last_reopen, clock, loops, cams>>
    /\ UNCHANGED <<latest, frVars, connVars, resVars, chVars, lockVars>>
    /\ UNCHANGED <<valVars, cacheVars, rxVars, serVars, grabberAlive, ctlVars, logVars>>

\* line 552: join(timeout=1.5) returns, the thread having exited or not
FrameGrabber_stop_join ==
    /\ caller.pc = "join"
    /\ caller' = [caller EXCEPT !.pc = "release"]
    /\ UNCHANGED <<_cap, _stop, _thread, _fail_count, _last_reopen, clock, loops, cams>>
    /\ UNCHANGED <<latest, frVars, connVars, resVars, chVars, lockVars>>
    /\ UNCHANGED <<valVars, cacheVars, rxVars, serVars, grabberAlive, ctlVars, logVars>>

\* lines 553-557: release the handle _cap holds at this moment
FrameGrabber_stop_release ==
    /\ caller.pc = "release"
    /\ cams' = Released(cams, _cap)
    /\ caller' = [caller EXCEPT !.pc = "clear"]
    /\ UNCHANGED <<_cap, _stop, _thread, _fail_count, _last_reopen, clock, loops>>
    /\ UNCHANGED <<latest, frVars, connVars, resVars, chVars, lockVars>>
    /\ UNCHANGED <<valVars, cacheVars, rxVars, serVars, grabberAlive, ctlVars, logVars>>

\* line 558: self._cap = None, whatever _cap holds by now; stop() returns
FrameGrabber_stop_clear ==
    /\ caller.pc = "clear"
    /\ _cap' = 0
    /\ caller' = [pc |-> "idle", last |-> "stop"]
    /\ UNCHANGED <<_stop, _thread, _fail_count, _last_reopen, clock, loops, cams>>
    /\ UNCHANGED <<latest, frVars, connVars, resVars, chVars, lockVars>>
    /\ UNCHANGED <<valVars, cacheVars, rxVars, serVars, grabberAlive, ctlVars, logVars>>

\* line 522: while not self._stop.is_set()
FrameGrabber_loop_top(t) ==
    /\ loops[t].pc = "top"
    /\ loops' = [loops EXCEPT ![t] =
                    IF _stop THEN [pc |-> "dead", cap |-> 0, ok |-> FALSE]
                    ELSE [pc |-> "cap", cap |-> 0, ok |-> FALSE]]
    /\ UNCHANGED <<_cap, _stop, _thread, _fail_count, _last_reopen, clock, cams, caller>>
    /\ UNCHANGED <<latest, frVars, connVars, resVars, chVars, lockVars>>
    /\ UNCHANGED <<valVars, cacheVars, rxVars, serVars, grabberAlive, ctlVars, logVars>>

\* lines 523-527: cap = self._cap, and the test of the handle
FrameGrabber_loop_cap(t) ==
    /\ loops[t].pc = "cap"
    /\ loops' = [loops EXCEPT ![t] =
                    IF CapUnusable(_cap, cams)
                    THEN [pc |-> "reopen", cap |-> _cap, ok |-> FALSE]
                    ELSE [pc |-> "read", cap |-> _cap, ok |-> FALSE]]
    /\ UNCHANGED <<_cap, _stop, _thread, _fail_count, _last_reopen, clock, cams, caller>>
    /\ UNCHANGED <<latest, frVars, connVars, resVars, chVars, lockVars>>
    /\ UNCHANGED <<valVars, cacheVars, rxVars, serVars, grabberAlive, ctlVars, logVars>>

\* the reopen test that fires only above the threshold
ReopenRequested_Late(n) == n > _max_fail_before_reopen

\* line 537: self._fail_count >= self._max_fail_before_reopen
ReopenRequested(n) == n >= _max_fail_before_reopen

\* lines 528-540: ok, frame = cap.read() returns; a released handle reads
\* nothing.  The counter is followed up to one past the threshold.
FrameGrabber_loop_read(t) ==
    /\ loops[t].pc = "read"
    /\ \E read \in Frames \cup {NoFrame} :
          /\ (read # NoFrame) => cams[loops[t].cap] = "open"
          /\ (read = NoFrame) => _fail_count <= _max_fail_before_reopen
          /\ IF read # NoFrame
             THEN /\ latest' = read
                  /\ _fail_count' = 0
                  /\ loops' = [loops EXCEPT ![t].pc = "top", ![t].ok = TRUE]
             ELSE /\ _fail_count' = _fail_count + 1
                  /\ loops' = [loops EXCEPT ![t].pc =
                                  IF ReopenRequested(_fail_count + 1)
                                  THEN "reopen" ELSE "top",
                                             ![t].ok = FALSE]
                  /\ UNCHANGED latest
    /\ UNCHANGED <<_cap, _stop, _thread, _last_reopen, clock, cams, caller>>
    /\ UNCHANGED <<frVars, connVars, resVars, chVars, lockVars>>
    /\ UNCHANGED <<valVars, cacheVars, rxVars, serVars, grabberAlive, ctlVars, logVars>>

\* the cooldown test that lets every request through
InCooldown_Never(now, last) == FALSE

\* line 509: now - self._last_reopen < self._reopen_cooldown_sec
InCooldown(now, last) == now - last < _reopen_cooldown_sec

\* _maybe_reopen, lines 508-516: now = time.time(), which has not gone back
\* since it was last read; return within the cooldown, else note the time and
\* release _cap
FrameGrabber_maybe_reopen(t) ==
    /\ loops[t].pc = "reopen"
    /\ \E now \in clock..MaxClock :
          /\ clock' = now
          /\ IF InCooldown(now, _last_reopen)
             THEN /\ loops' = [loops EXCEPT ![t].pc = "top"]
                  /\ UNCHANGED <<_last_reopen, cams>>
             ELSE /\ _last_reopen' = now
                  /\ cams' = Released(cams, _cap)
                  /\ loops' = [loops EXCEPT ![t].pc = "open"]
    /\ UNCHANGED <<_cap, _stop, _thread, _fail_count, caller>>
    /\ UNCHANGED <<latest, frVars, connVars, resVars, chVars, lockVars>>
    /\ UNCHANGED <<valVars, cacheVars, rxVars, serVars, grabberAlive, ctlVars, logVars>>

\* _maybe_reopen, lines 517-519: self._cap = _open_camera(); _fail_count = 0
FrameGrabber_maybe_reopen_open(t) ==
    /\ loops[t].pc = "open"
    /\ \E isOpened \in OpenCameraChoices(cams) :
          IF isOpened
          THEN /\ _cap' = NewCamera(cams)
               /\ cams' = [cams EXCEPT ![NewCamera(cams)] = "open"]
          ELSE /\ _cap' = NotOpened
               /\ UNCHANGED cams
    /\ _fail_count' = 0
    /\ loops' = [loops EXCEPT ![t].pc = "top"]
    /\ UNCHANGED <<_stop, _thread, _last_reopen, clock, caller>>
    /\ UNCHANGED <<latest, frVars, connVars, resVars, chVars, lockVars>>
    /\ UNCHANGED <<valVars, cacheVars, rxVars, serVars, grabberAlive, ctlVars, logVars>>

InitGrabberAlone ==
    /\ InitUnits
    /\ InitSerial
    /\ InitCache
    /\ InitRx
    /\ v_pc = "idle" /\ image = NoFrame /\ retry_count = 1 /\ latest = NoFrame
    /\ ValidatorIdle
    /\ InitOff

NextGrabber ==
    \/ FrameGrabber_start
    \/ FrameGrabber_stop
    \/ FrameGrabber_stop_join
    \/ FrameGrabber_stop_release
    \/ FrameGrabber_stop_clear
    \/ \E t \in ThreadIds :
          \/ FrameGrabber_loop_top(t)
          \/ FrameGrabber_loop_cap(t)
          \/ FrameGrabber_loop_read(t)
          \/ FrameGrabber_maybe_reopen(t)
          \/ FrameGrabber_maybe_reopen_open(t)

SpecGrabber == InitGrabberAlone /\ [][NextGrabber]_vars

----------------------------------------------------------------------------
(* FrameGrabber alone: the capture loop stores frames in _latest while      *)
(* get_latest_frame(copy=True) copies the stored frame.  A frame is a       *)
(* buffer of MaxCell cells; frame f written as a whole holds f in every     *)
(* cell.  _latest holds a reference to a buffer (0 is None).                *)

\* cap.read() writing into the array _latest refers to
FreshBuffer_InPlace(latestRef, heldRef) ==
    IF latestRef = 0 THEN Buffers \ {heldRef} ELSE {latestRef}

\* the buffers cap.read() can return: a new array, never one still referenced
FreshBuffer(latestRef, heldRef) == Buffers \ {latestRef, heldRef}

\* buffer b holding v in cell c
WithCell(h, b, c, v) == [h EXCEPT ![b] = [h[b] EXCEPT ![c] = v]]

\* an array nothing refers to any more is freed
Collect(h, refs) == [b \in Buffers |-> IF b \in refs THEN h[b] ELSE EmptyBuffer]

\* line 528: cap.read() starts filling the array it will return
FrameGrabber_loop_read_begin ==
    /\ capture.pc = "top"
    /\ \E f \in Frames, b \in FreshBuffer(latest, snapshot.ref) :
          /\ capture' = [pc |-> "fill", ref |-> b, frame |-> f, cell |-> 2]
          /\ heap' = WithCell(heap, b, 1, f)
    /\ UNCHANGED <<latest, _lock, snapshot, writtenWhole>>
    /\ UNCHANGED <<fgVars, connVars, resVars, chVars, lockVars>>
    /\ UNCHANGED <<valVars, cacheVars, rxVars, serVars, grabberAlive, ctlVars, logVars>>

\* line 528: cap.read() fills the next cell, and returns after the last
FrameGrabber_loop_read_fill ==
    /\ capture.pc = "fill"
    /\ heap' = WithCell(heap, capture.ref, capture.cell, capture.frame)
    /\ capture' = IF capture.cell = MaxCell
                  THEN [capture EXCEPT !.pc = "publish"]
                  ELSE [capture EXCEPT !.cell = capture.cell + 1]
    /\ UNCHANGED <<latest, _lock, snapshot, writtenWhole>>
    /\ UNCHANGED <<fgVars, connVars, resVars, chVars, lockVars>>
    /\ UNCHANGED <<valVars, cacheVars, rxVars, serVars, grabberAlive, ctlVars, logVars>>

\* lines 529-534: with self._lock: self._latest = frame
FrameGrabber_loop_publish ==
    /\ capture.pc = "publish"
    /\ _lock = "free"
    /\ latest' = capture.ref
    /\ writtenWhole' = writtenWhole \cup {capture.frame}
    /\ capture' = CaptureIdle
    /\ heap' = Collect(heap, {capture.ref, snapshot.ref})
    /\ UNCHANGED <<_lock, snapshot>>
    /\ UNCHANGED <<fgVars, connVars, resVars, chVars, lockVars>>
    /\ UNCHANGED <<valVars, cacheVars, rxVars, serVars, grabberAlive, ctlVars, logVars>>

\* lines 543-546: take the lock, read _latest, return None when it is None
FrameGrabber_get_latest_frame ==
    /\ snapshot.pc = "idle"
    /\ _lock = "free"
    /\ IF latest = 0
       THEN /\ snapshot' = [SnapshotIdle EXCEPT !.returned = "None"]
            /\ UNCHANGED _lock
       ELSE /\ snapshot' = [pc |-> "copy", ref |-> latest, cell |-> 1,
                            snap |-> EmptyBuffer, returned |-> "nothing"]
            /\ _lock' = "get_latest_frame"
    /\ UNCHANGED <<latest, heap, capture, writtenWhole>>
    /\ UNCHANGED <<fgVars, connVars, resVars, chVars, lockVars>>
    /\ UNCHANGED <<valVars, cacheVars, rxVars, serVars, grabberAlive, ctlVars, logVars>>

\* line 547: frame.copy() copies the next cell; after the last the lock is
\* released and the copy returned
FrameGrabber_get_latest_frame_copy ==
    /\ snapshot.pc = "copy"
    /\ LET snap == [snapshot.snap EXCEPT ![snapshot.cell] = heap[snapshot.ref][snapshot.cell]]
       IN IF snapshot.cell = MaxCell
          THEN /\ snapshot' = [pc |-> "idle", ref |-> 0, cell |-> 0, snap |-> snap,
                               returned |-> "frame"]
               /\ _lock' = "free"
               /\ heap' = Collect(heap, {latest, capture.ref})
          ELSE /\ snapshot' = [snapshot EXCEPT !.snap = snap, !.cell = snapshot.cell + 1]
               /\ UNCHANGED <<_lock, heap>>
    /\ UNCHANGED <<latest, capture, writtenWhole>>
    /\ UNCHANGED <<fgVars, connVars, resVars, chVars, lockVars>>
    /\ UNCHANGED <<valVars, cacheVars, rxVars, serVars, grabberAlive, ctlVars, logVars>>

NextFrames ==
    \/ FrameGrabber_loop_read_begin
    \/ FrameGrabber_loop_read_fill
    \/ FrameGrabber_loop_publish
    \/ FrameGrabber_get_latest_frame
    \/ FrameGrabber_get_latest_frame_copy

SpecFrames == InitGrabberAlone /\ [][NextFrames]_vars

----------------------------------------------------------------------------
(* Claims about recognizeAndValidate, checked under SpecValidate.          *)
(* The code returns the category id only; the agreement of the design is   *)
(* the return statement taken: L581 BothAgreed, L584/L586 SingleSourceOnly,*)
(* L608 RetryAgreed, L611 TieBreak, L613 SingleSourceOnly or BothFailed.   *)

FirstAttemptDone == callsB >= 1 /\ v_pc # "raised"
RetryDone == callsB = 2 /\ v_pc = "done"

\* C3: when both classifiers succeed on the first attempt with the same category c,
\* the call has returned c through the first-attempt agreement return, each
\* classifier was called exactly once and the frame supplier was never called.
C3_AgreeFirstAttempt ==
    (FirstAttemptDone /\ rf1.ok /\ gm1.ok /\ rf1.v = gm1.v)
        => /\ v_pc = "done"
           /\ v_result = rf1.v
           /\ v_ret = "L581"
           /\ callsA = 1 /\ callsB = 1
           /\ supplierCalls = 0

C3_Witness ==
    /\ v_pc = "done" /\ rf1 = Some(1) /\ gm1 = Some(1)
    /\ v_result = 1 /\ callsA = 1 /\ callsB = 1 /\ supplierCalls = 0

\* C4: when both succeed and disagree on the first attempt and both succeed and
\* agree on c on the retry, the result is c, the retry's category, through the
\* retry agreement return, whatever the two first-attempt categories were.
C4_RetryAgreed ==
    (RetryDone /\ rf1.ok /\ gm1.ok /\ rf1.v # gm1.v /\ rf2.ok /\ gm2.ok /\ rf2.v = gm2.v)
        => /\ v_result = rf2.v
           /\ v_result = gm2.v
           /\ v_ret = "L608"

C4_Witness ==
    /\ v_pc = "done" /\ rf1 = Some(1) /\ gm1 = Some(2)
    /\ rf2 = Some(2) /\ gm2 = Some(2) /\ v_result = 2

\* C5 as written: when the classifiers succeed and disagree on the first attempt
\* and again on the retry, the result is Gemini's retry value and is never a value
\* of Roboflow and never a value of the first attempt.  Lines 609-611 compare
\* only rf2 with gm2, so the returned id can equal gm1 or rf1.
C5_TieBreakNeverFirstAttempt ==
    (RetryDone /\ rf1.ok /\ gm1.ok /\ rf1.v # gm1.v /\ rf2.ok /\ gm2.ok /\ rf2.v # gm2.v)
        => /\ v_result = gm2.v
           /\ v_result # rf2.v
           /\ v_result # rf1.v
           /\ v_result # gm1.v

\* C5: when the classifiers succeed and disagree on the first attempt and again on
\* the retry, the call returns through the tie-break return (return gm2): the
\* result is Gemini's retry value and never Roboflow's retry value.
C5_TieBreakGemini ==
    (RetryDone /\ rf1.ok /\ gm1.ok /\ rf1.v # gm1.v /\ rf2.ok /\ gm2.ok /\ rf2.v # gm2.v)
        => /\ v_result = gm2.v
           /\ v_ret = "L611"
           /\ v_result # rf2.v

C5_Witness ==
    /\ v_pc = "done" /\ rf1 = Some(1) /\ gm1 = Some(2)
    /\ rf2 = Some(1) /\ gm2 = Some(2) /\ v_result = 2 /\ v_ret = "L611"

\* C6: when both classifiers fail on the first attempt and on the retry, the
\* result is Garbage (3) through the final default, and no exception raised by a
\* classifier ever leaves recognizeAndValidate.
C6_BothFailedGarbage ==
    /\ v_pc # "raised"
    /\ (callsB = 2 /\ ~rf1.ok /\ ~gm1.ok /\ ~rf2.ok /\ ~gm2.ok)
          => (v_pc = "done" /\ v_result = GARBAGE /\ v_ret = "L613")

C6_Witness ==
    /\ v_pc = "done" /\ callsA = 2 /\ callsB = 2
    /\ rf1 = None /\ gm1 = None /\ rf2 = None /\ gm2 = None
    /\ v_result = 3

\* C7: a failing classifier call never prevents the other call of the same attempt
\* (when the call returns, Gemini was called as often as Roboflow); when exactly one
\* succeeds on the first attempt its category is returned with no retry; when the
\* retry is reached and exactly one succeeds on it, its retry category is returned.
C7_FaultIsolationSingleSource ==
    /\ (v_pc = "done" => callsA = callsB /\ callsB >= 1)
    /\ (v_pc \in {"get_frame", "rf2"} => callsA = 1 /\ callsB = 1)
    /\ (FirstAttemptDone /\ rf1.ok /\ ~gm1.ok)
          => (v_pc = "done" /\ v_result = rf1.v /\ callsA = 1 /\ callsB = 1
              /\ supplierCalls = 0)
    /\ (FirstAttemptDone /\ ~rf1.ok /\ gm1.ok)
          => (v_pc = "done" /\ v_result = gm1.v /\ callsA = 1 /\ callsB = 1
              /\ supplierCalls = 0)
    /\ (RetryDone /\ rf2.ok /\ ~gm2.ok) => (v_result = rf2.v /\ v_ret = "L613")
    /\ (RetryDone /\ ~rf2.ok /\ gm2.ok) => (v_result = gm2.v /\ v_ret = "L613")

C7_Witness ==
    /\ v_pc = "done" /\ callsA = 2 /\ callsB = 2
    /\ rf1 = None /\ gm1 = None /\ rf2 = None /\ gm2 = Some(2)
    /\ v_result = 2

\* C27: when the request of classifier A's first call fails and classifier B's
\* first call returns a category, the validator returns B's category after
\* exactly one call of each classifier, without calling the frame supplier.
C27_FailedRequestIsSingleSource ==
    (FirstAttemptDone /\ callLog[1].failed /\ gm1.ok)
        => /\ v_pc = "done"
           /\ v_result = gm1.v
           /\ callsA = 1 /\ callsB = 1
           /\ supplierCalls = 0

\* the validator has entered its retry branch
Retried == v_pc \in {"get_frame", "rf2", "gm2"} \/ supplierCalls >= 1
\* the frame the retry has to classify: the supplier's, else the original
ExpectedRetryFrame == IF latest # NoFrame THEN latest ELSE image

\* C28: the validator retries at most once whatever the retry setting: each
\* classifier is called at most twice and the supplier at most once; with a
\* positive setting it retries exactly when the first attempt ended in
\* disagreement or with both calls failing, with setting 0 never; the first
\* attempt classifies the image, and a completed retry has called classifier
\* A and then classifier B on the supplier's frame, or on the image when the
\* supplier had none.
C28_AtMostOneRetry ==
    /\ callsA <= 2 /\ callsB <= 2 /\ supplierCalls <= 1
    /\ Len(callLog) = callsA + callsB
    /\ (retry_count = 0) => ~Retried
    /\ (FirstAttemptDone /\ retry_count > 0)
          => (Retried <=> \/ (rf1.ok /\ gm1.ok /\ rf1.v # gm1.v)
                          \/ (~rf1.ok /\ ~gm1.ok))
    /\ ~FirstAttemptDone => ~Retried
    /\ \A i \in 1..Len(callLog) :
          /\ callLog[i].fn = (IF i \in {1, 3} THEN "A" ELSE "B")
          /\ callLog[i].frame = (IF i <= 2 THEN image ELSE ExpectedRetryFrame)
    /\ (v_pc = "done" /\ Retried) => Len(callLog) = 4

\* a retry with the largest retry setting has run both classifiers on the
\* supplier's frame, which is not the original image
C28_Witness ==
    /\ v_pc = "done" /\ retry_count = MaxRetryCount
    /\ latest # NoFrame /\ latest # image
    /\ Len(callLog) = 4
    /\ callLog[3].frame = latest /\ callLog[4].frame = latest
    /\ ~rf1.ok /\ ~gm1.ok

----------------------------------------------------------------------------
(* Claims about the controller loop, checked under Spec.                   *)

CycleSteps == <<"Capture", "Classify", "Publish", "Command">>

\* the steps of the cycle taken when the controller is at position p
StepsBefore(p) ==
    CASE p \in {"Classify", "ClassifyRetry", "crashed"} -> SubSeq(CycleSteps, 1, 1)
      [] p = "Publish" -> SubSeq(CycleSteps, 1, 2)
      [] p = "Command" -> SubSeq(CycleSteps, 1, 3)
      [] p = "WaitSettle" -> CycleSteps
      [] OTHER -> <<>>

InCycle == pc \in {"Capture", "Classify", "ClassifyRetry", "Publish", "Command"}

\* C1: a cycle starts only after a read with isTriggered = true; its steps are
\* taken in the order Capture, Classify, Publish, Command; and when the Command
\* step is over send_command has been called exactly once in the cycle, with the
\* id recognizeAndValidate returned in that cycle (the only value written).
C1_CycleOrderOneSend ==
    /\ (InCycle => isTriggered)
    /\ cycleLog = StepsBefore(pc)
    /\ sendAttempts = (IF pc = "WaitSettle" THEN 1 ELSE 0)
    /\ (pc = "WaitSettle" => commanded = v_returned /\ lastWritten \in {NoCommand, v_returned})
    /\ (pc # "WaitSettle" => commanded = NoCommand /\ lastWritten = NoCommand)

C1_Witness ==
    /\ pc = "WaitSettle" /\ cycleLog = CycleSteps
    /\ sendAttempts = 1 /\ v_returned = 2 /\ commanded = 2 /\ lastWritten = 2
    /\ processed = 1

\* C2: while the cache shows isMoving = true the controller stays in WaitSettle
\* and does not count the cycle; it leaves WaitSettle, counting the cycle, only
\* by a read of the cache with isMoving = false, and WaitTrigger is entered from
\* the loop head only.
C2_SettleBeforeNextCycle ==
    [][ /\ (pc = "WaitSettle" /\ last_state_tuple[1])
            => (pc' = "WaitSettle" /\ processed' = processed)
        /\ (processed' # processed \/ (pc = "WaitSettle" /\ pc' # "WaitSettle"))
            => /\ pc = "WaitSettle" /\ pc' \in {"WaitFirstFrame", "stopped"}
               /\ ~last_state_tuple[1] /\ ~isMoving'
               /\ processed' = processed + 1
        /\ (pc' = "WaitTrigger" /\ pc # "WaitTrigger") => pc = "WaitFirstFrame"
      ]_vars

C2_Witness ==
    /\ pc = "WaitSettle" /\ settlePolled /\ isMoving /\ sendAttempts = 1

\* C29: a cycle starts only after a poll has read isTriggered = false since
\* the previous command was sent: a trigger that stays asserted starts no
\* second cycle.
C29_ReleaseBetweenCommands == (pc = "Capture") => releaseSeen

\* C30: the slug handed to the backend in a cycle is the entry of
\* CATEGORY_ID_TO_SLUG at the value commanded in that cycle.
C30_SlugMatchesCommand ==
    (pc = "WaitSettle" /\ published # "")
        => /\ commanded \in DOMAIN CATEGORY_ID_TO_SLUG
           /\ published = CATEGORY_ID_TO_SLUG[commanded]

C10_CommandInRange == lastWritten \in {NoCommand, 1, 2, 3}

\* C11: once the controller has accessed the serial client, either a connection
\* was opened (the reader thread was started) or the run has terminated with a
\* failure: it is never in WaitTrigger, or anywhere else in the loop, with an
\* access behind it and no connection ever opened.
C11_NoPortIsFatal == (serialAccessed /\ ~readerAlive) => pc = "failed"

\* the position after a step of the loop taken at position p
NextInCycle(p) ==
    CASE p = "Classify" -> {"ClassifyRetry", "Publish"}
      [] p = "ClassifyRetry" -> {"Publish"}
      [] p = "Publish" -> {"Command"}
      [] p = "Command" -> {"WaitSettle"}
      [] p = "WaitSettle" -> {"WaitFirstFrame"}
      [] OTHER -> {}

\* C12: whatever fails in a cycle (a classifier call, the publish, the command
\* write), every step of the cycle leads to the next position of the loop: the
\* classification is followed by the publish step, that by one command attempt,
\* that by WaitSettle with all four steps taken, and WaitSettle is left for the
\* loop head (or because the configured cycle bound is reached), from where
\* WaitTrigger is entered unless the operator quits.
C12_FailuresDoNotStopLoop ==
    [][ /\ (pc \in {"Classify", "ClassifyRetry", "Publish", "Command"})
            => pc' \in {pc} \cup NextInCycle(pc)
        /\ (pc = "WaitSettle")
            => \/ pc' \in {pc} \cup NextInCycle(pc)
               \/ pc' = "stopped" /\ max_frames # NoLimit /\ processed' >= max_frames
        /\ (pc' = "WaitSettle" /\ pc # "WaitSettle")
            => sendAttempts' = 1 /\ cycleLog' = CycleSteps
        /\ (pc = "WaitFirstFrame")
            => \/ pc' \in {pc, "WaitTrigger"}
               \/ pc' = "stopped" /\ show_window
      ]_vars

C12_Witness ==
    /\ pc = "WaitSettle" /\ processed = 1
    /\ faults = {"classifier", "publish", "command"}
    /\ sendAttempts = 1 /\ lastWritten = NoCommand /\ cycleLog = CycleSteps

\* C13: once the controller loop has been stopped, no background task is left
\* running: the serial reader and the frame grabber have observed the stop.
C13_StopReachesEveryLoop ==
    (pc \in {"stopped", "interrupted"}) => (~readerAlive /\ ~grabberAlive)

\* the positions of a cycle that has started and is not yet counted
CyclePending == InCycle \/ pc = "WaitSettle"

\* C18: with max_frames = N the number of cycles started never exceeds N, a run
\* that breaks out of the loop on the count has completed exactly N cycles, and
\* with no bound the loop is left only through the operator's quit key.
C18_StopsAfterExactlyN ==
    /\ (max_frames # NoLimit)
          => processed + (IF CyclePending THEN 1 ELSE 0) <= max_frames
    /\ (pc = "stopped" /\ ~show_window) => processed = max_frames
    /\ (max_frames = NoLimit /\ pc = "stopped") => show_window

----------------------------------------------------------------------------
(* Claims about the serial client, checked under SpecSerial and            *)
(* SpecResolve.                                                            *)

\* C16: when a write of send_command fails, the connection is closed, then
\* discarded as send_command raises: the client holds a connection on which a
\* write has failed only inside that call, between close() and the discard.
\* Afterwards no thread takes that connection up again: the caller writes only
\* on connections without a failed write, and the reader fetches _serial for a
\* read only when it holds none of them, unless the failing call is still
\* before its discard.
C16_WriteFailureDiscardsConnection ==
    /\ [](/\ (conn \in writeFailed)
                => (ser_main.pc = "discard" /\ ser_main.connection = conn)
          /\ (conn = 0) => ~serialOpen
          /\ serialOpen => conn \notin writeFailed
          /\ (ser_main.pc \in {"write", "readline", "reset"})
                => ser_main.connection \notin writeFailed)
    /\ [][ /\ (ser_main.pc = "discard" /\ ser_main'.pc = "idle")
                => /\ conn' = 0 /\ ~serialOpen'
                   /\ ser_last' = [op |-> "send", conn |-> ser_main.connection,
                                   ok |-> FALSE, raised |-> TRUE]
           /\ (ser_reader.pc = "take" /\ ser_reader'.pc = "readline")
                => \/ ser_reader'.connection \notin writeFailed
                   \/ ser_main.pc = "discard"
           /\ (ser_main'.pc = "idle" /\ ser_last' # ser_last /\ ser_last'.op = "send"
                  /\ ser_last'.ok)
                => /\ ser_last'.conn \notin writeFailed
                   /\ \A k \in writeFailed : k < ser_last'.conn
         ]_vars

C16_Witness ==
    /\ ser_last = [op |-> "send", conn |-> 2, ok |-> TRUE, raised |-> FALSE]
    /\ writeFailed = {1} /\ conn = 2 /\ opened = 2

\* C21: a call of get_latest_state performs no device operation: it opens no
\* connection, leaves the held connection as it is and starts no thread.
C21_GetLatestStateReadsCacheOnly ==
    [][ (ser_main.op = "state" /\ ser_main' # ser_main)
            => /\ opened' = opened
               /\ conn' = conn
               /\ serialOpen' = serialOpen
               /\ readerAlive' = readerAlive
      ]_vars

OpenHandles == { h \in HandleIds : handles[h] = "open" }

\* C22: under every interleaving of the reader loop, get_latest_state and
\* send_command at most one serial handle is open, and every open handle is
\* the one held in _serial: none is lost without being closed.
C22_AtMostOneOpenHandle ==
    /\ Cardinality(OpenHandles) <= 1
    /\ \A h \in OpenHandles : _serial = h

\* C23: while the reader thread has a readline in flight on a handle, no
\* step closes that handle or replaces it in _serial.
C23_NoCloseDuringRead ==
    [][ \A r \in ReaderIds :
          (readers[r].pc = "readline" /\ readers'[r].pc = "readline")
              => /\ handles'[readers[r].conn] = handles[readers[r].conn]
                 /\ (_serial = readers[r].conn) => (_serial' = _serial)
      ]_vars

AliveReaders == { r \in ReaderIds : readers[r].pc # "unborn" }

\* C24: at most one SerialReader thread is alive, and once a handle has been
\* opened exactly one is, the controller's thread being at most on its way
\* from the first open to _start_reader.
C24_OneReaderThread ==
    /\ Cardinality(AliveReaders) <= 1
    /\ ((\E h \in HandleIds : handles[h] # "none") /\ AliveReaders = {})
          => main.pc = "start_reader"

\* after a failed write has closed a handle, the reader thread itself has
\* reopened the port and calls _start_reader: still one reader
C24_Witness ==
    /\ Cardinality(AliveReaders) = 1
    /\ \E r \in ReaderIds : readers[r].pc = "start_reader"
    /\ \E h \in HandleIds : handles[h] = "closed"

\* C20: a failed read leaves the reader thread running and invalidates the
\* connection: the client never holds a connection on which a read has failed.
C20_ReadErrorInvalidates ==
    /\ (readFailed # {}) => readerAlive
    /\ conn \notin readFailed

\* the description of a port contains a known keyword
DescriptionHasKeyword(port) ==
    \E kw \in _PREFERRED_KEYWORDS : Contains(LowerStr(port.description), kw)

\* a generic port: no hint in its description, manufacturer or device path
IsGeneric(port) ==
    /\ ~DescriptionHasKeyword(port)
    /\ ~\E kw \in _PREFERRED_KEYWORDS : Contains(LowerStr(port.manufacturer), kw)
    /\ ~\E kw \in DeviceKeywords : Contains(LowerStr(port.device), kw)

\* the positions of the ports whose description contains a keyword
Hinted == { i \in 1..Len(ports) : DescriptionHasKeyword(ports[i]) }

\* C17: _resolve_port returns the override (blanks stripped) when one is set;
\* otherwise it raises on an empty list, returns the one port whose description
\* has a keyword when all the others are generic, wherever it stands in the
\* list, and returns the first port when every port is generic.
C17_PortResolution ==
    resolved.done =>
        /\ (ComOverride(com_override) # <<>>)
              => (~resolved.raised /\ resolved.device = Strip(com_override))
        /\ (ComOverride(com_override) = <<>> /\ ports = <<>>) => resolved.raised
        /\ (ComOverride(com_override) = <<>> /\ ports # <<>>) => ~resolved.raised
        /\ (/\ ComOverride(com_override) = <<>>
            /\ Cardinality(Hinted) = 1
            /\ \A i \in (1..Len(ports)) \ Hinted : IsGeneric(ports[i]))
              => \A i \in Hinted : resolved.device = ports[i].device
        /\ (/\ ComOverride(com_override) = <<>>
            /\ ports # <<>>
            /\ \A i \in 1..Len(ports) : IsGeneric(ports[i]))
              => resolved.device = ports[1].device

C17_Witness ==
    /\ resolved.done /\ ~resolved.raised
    /\ com_override = <<" ", " ">>
    /\ ports = <<GenericPortA, GenericPortB, HintedPort>>
    /\ resolved.device = HintedPort.device

----------------------------------------------------------------------------
(* Claims about the frame grabber, checked under SpecFrames and            *)
(* SpecGrabber.                                                            *)

\* frame f as a whole
WholeFrame(f) == [c \in Cells |-> f]

\* C14: whatever get_latest_frame returned is None or a copy of one of the frames
\* the capture loop stored as a whole; no copy mixes cells of two frames, and a
\* copy in progress holds cells of one stored frame only.
C14_NoTornFrame ==
    /\ (snapshot.returned = "frame")
          => \E f \in writtenWhole : snapshot.snap = WholeFrame(f)
    /\ (snapshot.returned = "None") => snapshot.snap = EmptyBuffer
    /\ (snapshot.pc = "copy")
          => \E f \in writtenWhole :
                \A c \in Cells : snapshot.snap[c] \in {NoFrame, f}

C14_Witness ==
    /\ snapshot.returned = "frame" /\ snapshot.snap = WholeFrame(1)
    /\ capture.pc = "fill" /\ capture.frame = 2
    /\ latest # 0 /\ heap[latest] = WholeFrame(2)

\* a camera handle is held open by the frame grabber
HoldsOpenCamera == _cap \in CameraIds /\ cams[_cap] = "open"

\* C15: from the return of stop() to the next call the grabber holds no open
\* camera handle.
C15_StopReleasesCamera ==
    (caller.pc = "idle" /\ caller.last = "stop") => ~HoldsOpenCamera

\* the capture threads that are running
AliveThreads == { t \in ThreadIds : loops[t].pc \notin {"unborn", "dead"} }

\* C19: at most one capture thread is alive, whatever the order of the calls of
\* start() and stop(); after a start() that raised (the camera did not open) no
\* capture thread is alive, and after a start() that returned the grabber has a
\* thread.
C19_OneCaptureThread ==
    /\ Cardinality(AliveThreads) <= 1
    /\ (caller.pc = "idle" /\ caller.last = "start_raised") => AliveThreads = {}
    /\ (caller.last = "start") => _thread # 0
    /\ AliveThreads \subseteq {_thread}

C19_Witness ==
    /\ caller = [pc |-> "idle", last |-> "start"]
    /\ loops[1].pc = "dead" /\ loops[2].pc = "read" /\ _thread = 2
    /\ cams[1] = "released" /\ cams[2] = "open"

\* C25: a cap.read() that succeeds sets the failure counter to 0; one that
\* fails increments it by one, and requests a reopen whenever the counter has
\* then reached the threshold; after a reopen attempt that was performed the
\* counter is 0, whether the camera opened or not.
C25_FailureCounter ==
    [][ \A t \in ThreadIds :
          /\ (loops[t].pc = "read" /\ loops'[t].pc # "read")
                => /\ loops'[t].ok => _fail_count' = 0
                   /\ ~loops'[t].ok
                        => /\ _fail_count' = _fail_count + 1
                           /\ (_fail_count' >= _max_fail_before_reopen)
                                 => loops'[t].pc = "reopen"
          /\ (loops[t].pc = "open" /\ loops'[t].pc # "open") => _fail_count' = 0
      ]_vars

\* after a reopen attempt was performed the counter has climbed to the
\* threshold again on a failed read, and a reopen is requested
C25_Witness ==
    \E t \in ThreadIds :
        /\ loops[t].pc = "reopen" /\ ~loops[t].ok
        /\ _fail_count = _max_fail_before_reopen
        /\ _last_reopen # 0

\* C26: a reopen attempt is performed only when at least the cooldown has
\* passed since the previous attempt; a request inside the cooldown returns
\* without releasing or opening anything.  Requests come from the threshold
\* and from a missing or unopened handle alike.
C26_ReopenCooldown ==
    [][ \A t \in ThreadIds :
          /\ (loops[t].pc = "reopen" /\ loops'[t].pc = "open")
                => /\ clock' - _last_reopen >= _reopen_cooldown_sec
                   /\ _last_reopen' = clock'
          /\ (loops[t].pc = "reopen" /\ loops'[t] # loops[t]
                 /\ clock' - _last_reopen < _reopen_cooldown_sec)
                => /\ loops'[t].pc = "top"
                   /\ cams' = cams /\ _cap' = _cap
                   /\ _last_reopen' = _last_reopen
                   /\ _fail_count' = _fail_count
      ]_vars

\* a request made inside the cooldown of an earlier attempt has returned, the
\* counter still at the threshold
C26_Witness ==
    \E t \in ThreadIds :
        /\ loops[t].pc = "top"
        /\ _last_reopen # 0 /\ clock > _last_reopen
        /\ clock - _last_reopen < _reopen_cooldown_sec
        /\ _fail_count >= _max_fail_before_reopen

----------------------------------------------------------------------------
(* Claims about the state-line parser, checked under SpecParse.            *)

\* The two-digit state grammar: the whole stripped line is an optional "(",
\* a binary digit, a comma or white space with optional white space around it,
\* a binary digit and an optional ")".
IsGrammarLine(t) ==
    LET g == MatchAt(t, 1)
    IN g # <<>> /\ MatchEnd(t, g[3]) = Len(t) + 1

\* the binary digits of a line, left to right
BitsOf(t) == SelectSeq(t, IsBit)

\* the pair a grammar line denotes: its two digits read left to right
PairOf(t) == <<BitsOf(t)[1] = "1", BitsOf(t)[2] = "1">>

\* C8: the cached pair is the pair of the most recent received line that is an
\* instance of the two-digit grammar; a received line that is not an instance
\* leaves the cached pair unchanged.
C8_OnlyGrammarLinesChangeCache ==
    rxDone => last_state_tuple = IF IsGrammarLine(Strip(rxRaw))
                                 THEN PairOf(Strip(rxRaw))
                                 ELSE prevTuple

\* C9: for every line that is an instance of the grammar the reader caches
\* isMoving = (first digit is 1) and isTriggered = (second digit is 1), the
\* digits read left to right.
C9_DigitsLeftToRight ==
    (rxDone /\ IsGrammarLine(Strip(rxRaw)))
        => /\ Len(BitsOf(rxRaw)) = 2
           /\ last_state_tuple = <<BitsOf(rxRaw)[1] = "1", BitsOf(rxRaw)[2] = "1">>
           /\ last_state_line = Strip(rxRaw)

C9_Witness ==
    /\ rxDone
    /\ rxRaw = <<"(", " ", "1", " ", ",", " ", "0", " ", ")", "\n">>
    /\ prevTuple = <<FALSE, TRUE>>
    /\ last_state_tuple = <<TRUE, FALSE>>

====
